---- MODULE Spec2Model ----
(***************************************************************************)
(* Model of the MCP knowledge server: the JSON-RPC entry point             *)
(* (MCPServer.handle_rpc, process_method, list_tools, call_tool and the    *)
(* inline tool handlers of server.py) and the streaming channel            *)
(* (MCPServer.handle_sse).                                                 *)
(*                                                                         *)
(* A request is handled by one coroutine.  A coroutine runs without        *)
(* interruption between its awaits, so one action covers the code from     *)
(* the arrival of the body to the first await of a store (or to the        *)
(* response when no store is awaited), and one action covers the code      *)
(* from the completion of an await to the next await or to the response:   *)
(* a vector-store handler awaits one call of the client; a graph handler   *)
(* awaits the entry of its session, session.run, the records of the        *)
(* result and the exit of the session.  The streaming handler is split at  *)
(* each of its awaits (prepare, send, sleep).                              *)
(*                                                                         *)
(* The RPC coroutines and the streaming handlers share no state, so each   *)
(* is explored by its own specification: Spec for /rpc, StreamSpec and     *)
(* StreamFairSpec for /sse.                                                *)
(***************************************************************************)
EXTENDS Integers, Sequences, FiniteSets, TLC

\* Number of RPC requests that may be in flight at once.
MaxInFlight == 2

\* Number of streaming channels that may be open at once.
MaxStreams == 2

\* The heartbeat counter of a stream stops counting here (the handler goes on).
MaxPings == 3

Streams == 1..MaxStreams

Slots == 1..MaxInFlight

\* A member that is absent from a JSON object (dict.get then yields None).
Absent == "<absent>"

\* JSON null, the value json_response writes for Python's None.
Null == "<null>"

\* Request ids used by the clients.
RequestIds == {"id_a", "id_b"}

(***************************************************************************)
(* The tool catalog of list_tools, in the order of the source, and the     *)
(* names call_tool's if/elif chain dispatches on.                          *)
(***************************************************************************)
ToolNames ==
    << "neo4j_query", "neo4j_create_node", "neo4j_create_relationship",
       "neo4j_vector_search", "embeddings_generate", "qdrant_create_collection",
       "qdrant_upsert_points", "qdrant_search", "qdrant_get_collection_info",
       "qdrant_delete_points", "embeddings_model_info" >>

\* The descriptor list_tools builds for one name: every inputSchema in the
\* source is {'type': 'object', 'properties': ...}.
ToolDescriptor(n) ==
    [name |-> n, hasDescription |-> TRUE, inputSchema |-> [type |-> "object"]]

list_tools == [i \in 1..Len(ToolNames) |-> ToolDescriptor(ToolNames[i])]

\* The names tools/list reports.
CatalogNames == { list_tools[i].name : i \in 1..Len(list_tools) }

DispatchedTools_Drop ==
    { "neo4j_query", "neo4j_create_node", "neo4j_create_relationship",
      "neo4j_vector_search", "embeddings_generate", "qdrant_create_collection",
      "qdrant_upsert_points", "qdrant_search", "qdrant_get_collection_info",
      "qdrant_delete_points" }

\* The names compared against tool_name in call_tool.
DispatchedTools ==
    { "neo4j_query", "neo4j_create_node", "neo4j_create_relationship",
      "neo4j_vector_search", "embeddings_generate", "qdrant_create_collection",
      "qdrant_upsert_points", "qdrant_search", "qdrant_get_collection_info",
      "qdrant_delete_points", "embeddings_model_info" }

\* A name no branch of call_tool matches.
UnknownTool == "non_existent_tool"

(***************************************************************************)
(* Tool handlers of server.py.  Arguments are modelled by the set of keys  *)
(* present in the mapping and by the key sets of the points it lists.      *)
(***************************************************************************)

\* Keys read with args['k'] before anything else happens: a missing one
\* raises KeyError.
SubscriptKeys(tool) ==
    CASE tool = "neo4j_query" -> {"query"}
      [] tool = "neo4j_create_node" -> {"labels", "properties"}
      [] tool = "neo4j_create_relationship" ->
            {"from_node_id", "to_node_id", "relationship_type"}
      [] tool = "neo4j_vector_search" -> {"text"}
      [] tool = "embeddings_generate" -> {}
      [] tool = "qdrant_create_collection" -> {"collection_name"}
      [] tool = "qdrant_upsert_points" -> {"collection_name", "points"}
      [] tool = "qdrant_search" -> {"collection_name"}
      [] tool = "qdrant_get_collection_info" -> {"collection_name"}
      [] tool = "qdrant_delete_points" -> {"collection_name", "point_ids"}
      [] tool = "embeddings_model_info" -> {}

\* Keys of which one must be present, else the handler raises ValueError.
EitherKeys(tool) ==
    CASE tool = "embeddings_generate" -> {"text", "texts"}
      [] tool = "qdrant_search" -> {"text", "vector"}
      [] OTHER -> {}

\* Handlers that await the graph driver or the vector-store client.
StoreTools ==
    { "neo4j_query", "neo4j_create_node", "neo4j_create_relationship",
      "neo4j_vector_search", "qdrant_create_collection", "qdrant_upsert_points",
      "qdrant_search", "qdrant_get_collection_info", "qdrant_delete_points" }

\* The three groups of the catalog.
GraphToolNames ==
    { "neo4j_query", "neo4j_create_node", "neo4j_create_relationship",
      "neo4j_vector_search" }

VectorStoreToolNames ==
    { "qdrant_create_collection", "qdrant_upsert_points", "qdrant_search",
      "qdrant_get_collection_info", "qdrant_delete_points" }

EmbeddingToolNames == { "embeddings_generate", "embeddings_model_info" }

\* The await a store handler first suspends on: the graph handlers enter
\* 'async with neo4j_driver.session()', the vector-store handlers await
\* one call of qdrant_client.
FirstAwait(tool) ==
    IF tool \in GraphToolNames THEN "session.__aenter__" ELSE "qdrant_client"

\* The await that follows session.run: the handler iterates the result
\* ('async for record in result') or awaits result.single().
AfterRun(tool) ==
    IF tool \in {"neo4j_query", "neo4j_vector_search"}
    THEN "result.__anext__" ELSE "result.single"

\* Top-level keys of the mapping a handler returns for arguments with the
\* given keys.
ResultKeys(tool, keys) ==
    CASE tool = "neo4j_query" -> {"records", "count"}
      [] tool = "neo4j_create_node" -> {"node"}
      [] tool = "neo4j_create_relationship" -> {"relationship"}
      [] tool = "neo4j_vector_search" -> {"results"}
      [] tool = "embeddings_generate" ->
            IF "text" \in keys THEN {"embedding", "dimensions"}
            ELSE {"embeddings", "dimensions"}
      [] tool = "qdrant_create_collection" -> {"collection_name", "created"}
      [] tool = "qdrant_upsert_points" -> {"upserted"}
      [] tool = "qdrant_search" -> {"results"}
      [] tool = "qdrant_get_collection_info" ->
            {"collection_name", "vectors_count", "points_count", "config"}
      [] tool = "qdrant_delete_points" -> {"deleted"}
      [] tool = "embeddings_model_info" ->
            {"model_name", "dimensions", "max_seq_length"}

\* The argument mappings the clients send, by shape.  An argument mapping
\* is its set of keys, the key sets of the points it lists (args['points']),
\* whether generate_embedding_for names a property of args['properties']
\* and whether its node ids are numbers or numeric strings ("1") or other
\* strings ("abc", "4:0f3a:1", "": shape "text_ids").
ArgShapes(tool) ==
    {"empty", "full"} \cup
    CASE tool = "embeddings_generate" -> {"texts"}
      [] tool = "neo4j_create_node" -> {"unnamed"}
      [] tool = "neo4j_create_relationship" -> {"text_ids"}
      [] tool = "qdrant_search" -> {"vector"}
      [] tool = "qdrant_upsert_points" ->
            {"no_points", "id_only"}
      [] OTHER -> {}

FullArgs(tool) ==
    CASE tool = "neo4j_create_node" ->
            {"labels", "properties", "generate_embedding_for"}
      [] tool = "embeddings_generate" -> {"text", "texts"}
      [] tool = "qdrant_search" -> {"collection_name", "text"}
      [] tool \in DispatchedTools -> SubscriptKeys(tool)
      [] OTHER -> {"x"}

ArgKeys(tool, shape) ==
    CASE shape = "empty" -> {}
      [] shape = "texts" -> {"texts"}
      [] shape = "vector" -> {"collection_name", "vector"}
      [] OTHER -> FullArgs(tool)

ArgPoints(tool, shape) ==
    IF tool # "qdrant_upsert_points" THEN << >>
    ELSE CASE shape = "full" ->
                 << {"id", "text"}, {"id", "text", "payload"},
                    {"id", "text", "vector"}, {"id", "vector"} >>
           [] shape = "id_only" -> << {"id", "vector"}, {"id"} >>
           [] OTHER -> << >>

Arguments(tool, shape) ==
    [keys |-> ArgKeys(tool, shape), points |-> ArgPoints(tool, shape),
     target |-> tool = "neo4j_create_node" /\ shape = "full",
     numeric |-> shape # "text_ids"]

NoArguments ==
    [keys |-> {}, points |-> << >>, target |-> FALSE, numeric |-> TRUE]

(***************************************************************************)
(* Values exchanged inside the server.                                     *)
(***************************************************************************)

\* A capabilities mapping, as the set of its <<path, leaf value>> pairs.
NoCapabilities == {}

\* What a handler, call_tool or process_method produced when it stopped
\* running: it returned a mapping, raised, or suspended on a store await.
\* handler and args: the handler that was invoked and the keys of the
\* argument mapping it was invoked with.
Returned(keys, caps, tools, handler, modelCalls) ==
    [status |-> "return", exc |-> "none", keys |-> keys, capabilities |-> caps,
     tools |-> tools, handler |-> handler, args |-> {},
     modelCalls |-> modelCalls]

Raised(exc, handler, modelCalls) ==
    [status |-> "raise", exc |-> exc, keys |-> {}, capabilities |-> NoCapabilities,
     tools |-> << >>, handler |-> handler, args |-> {},
     modelCalls |-> modelCalls]

Awaiting(handler, modelCalls) ==
    [status |-> "await", exc |-> "none", keys |-> {}, capabilities |-> NoCapabilities,
     tools |-> << >>, handler |-> handler, args |-> {},
     modelCalls |-> modelCalls]

\* The loop of qdrant_upsert_points over the points still to convert, calls
\* of encode made so far: a point with a text and no vector is encoded,
\* then point['id'] and point['vector'] are read.
RECURSIVE UpsertLoop(_, _, _)
UpsertLoop(points, calls, modelFault) ==
    IF points = << >> THEN Awaiting("qdrant_upsert_points", calls)
    ELSE LET point == Head(points)
             encodes == "text" \in point /\ "vector" \notin point
             made == IF encodes THEN calls + 1 ELSE calls
         IN  IF encodes /\ modelFault
             THEN Raised("ModelFault", "qdrant_upsert_points", made)
             ELSE IF "id" \notin point \/ (~encodes /\ "vector" \notin point)
             THEN Raised("KeyError", "qdrant_upsert_points", made)
             ELSE UpsertLoop(Tail(points), made, modelFault)

\* Whether a handler that got past its argument checks calls
\* embeddings_model.encode (once).
Encodes(tool, args) ==
    CASE tool = "neo4j_create_node" ->
            "generate_embedding_for" \in args.keys /\ args.target
      [] tool = "neo4j_vector_search" -> TRUE
      [] tool = "embeddings_generate" -> TRUE
      [] tool = "qdrant_search" -> "text" \in args.keys
      [] OTHER -> FALSE

\* One of the inline handlers (neo4j_query ... embeddings_model_info), from
\* its first statement to its first store await, its return or its raise.
\* modelFault: embeddings_model.encode raises when called.
ToolHandler(tool, args, modelFault) ==
    LET keys == args.keys
        encodes == IF Encodes(tool, args) THEN 1 ELSE 0
    IN  IF ~(SubscriptKeys(tool) \subseteq keys)
        THEN Raised("KeyError", tool, 0)
        ELSE IF EitherKeys(tool) # {} /\ EitherKeys(tool) \cap keys = {}
        THEN Raised("ValueError", tool, 0)
        ELSE IF tool = "qdrant_upsert_points"
        THEN UpsertLoop(args.points, 0, modelFault)
        ELSE IF encodes = 1 /\ modelFault
        THEN Raised("ModelFault", tool, 1)
        ELSE IF tool \in StoreTools
        THEN Awaiting(tool, encodes)
        ELSE Returned(ResultKeys(tool, keys), NoCapabilities, << >>, tool,
                      encodes)

\* call_tool: the if/elif chain over tool_name, else ValueError.
call_tool(tool_name, args, modelFault) ==
    IF tool_name \in DispatchedTools
    THEN [ToolHandler(tool_name, args, modelFault) EXCEPT !.args = args.keys]
    ELSE Raised("ValueError", "none", 0)

\* The mapping process_method returns for 'initialize'.
InitializeCapabilities == { << "tools.listTools", TRUE >> }

\* params.get('arguments', {}): the arguments handed to call_tool.
ArgumentsOrDefault(params) ==
    IF params.arguments = Absent THEN NoArguments
    ELSE Arguments(params.name, params.arguments)

process_method_RequiresArguments(method, params, modelFault) ==
    IF method = "initialize"
    THEN Returned({"protocolVersion", "capabilities"}, InitializeCapabilities,
                  << >>, "none", 0)
    ELSE IF method = "tools/list"
    THEN Returned({"tools"}, NoCapabilities, list_tools, "none", 0)
    ELSE IF method = "tools/call"
    THEN IF params.kind = "nondict"
         THEN Raised("AttributeError", "none", 0)
         ELSE IF params.arguments = Absent
         THEN Raised("KeyError", "none", 0)
         ELSE call_tool(params.name, ArgumentsOrDefault(params), modelFault)
    ELSE Raised("ValueError", "none", 0)

\* process_method(method, params).
process_method(method, params, modelFault) ==
    IF method = "initialize"
    THEN Returned({"protocolVersion", "capabilities"}, InitializeCapabilities,
                  << >>, "none", 0)
    ELSE IF method = "tools/list"
    THEN Returned({"tools"}, NoCapabilities, list_tools, "none", 0)
    ELSE IF method = "tools/call"
    THEN IF params.kind = "nondict"
         THEN Raised("AttributeError", "none", 0)
         ELSE call_tool(params.name, ArgumentsOrDefault(params), modelFault)
    ELSE Raised("ValueError", "none", 0)

(***************************************************************************)
(* Request bodies and responses.                                           *)
(***************************************************************************)

NoParams == [kind |-> "absent", name |-> Absent, arguments |-> Absent]

NonDictParams == [kind |-> "nondict", name |-> Absent, arguments |-> Absent]

\* params of a tools/call request: a mapping with or without name and
\* arguments; the clients name the tools tools/list reports, and one it
\* does not.
CallParams ==
    UNION {[kind : {"dict"}, name : {name},
            arguments : ArgShapes(name) \cup {Absent}] :
              name \in CatalogNames \cup {UnknownTool, Absent}}

Methods == {"initialize", "tools/list", "tools/call", "invalid/method", Absent}

\* The bodies the clients post: text that is no JSON, JSON that is no
\* object, and objects.  The clients number their tools/call requests and
\* leave the id out of some of the others.
Bodies ==
    { [json |-> j, method |-> Absent, params |-> NoParams, id |-> Absent] :
        j \in {"invalid", "nonobject"} }
    \cup [json : {"object"}, method : Methods \ {"tools/call"},
          params : {NoParams, NonDictParams}, id : RequestIds \cup {Absent}]
    \cup [json : {"object"}, method : {"tools/call"},
          params : CallParams \cup {NoParams, NonDictParams},
          id : RequestIds]

GetId_Dropped(body) == Null

\* data.get('id'): None when the member is absent.
GetId(body) == IF body.id = Absent THEN Null ELSE body.id

NoResponse ==
    [kind |-> "none", id |-> Null, code |-> 0, keys |-> {},
     capabilities |-> NoCapabilities, tools |-> << >>]

\* The response of the try branch of handle_rpc.
ResultResponse(id, out) ==
    [kind |-> "result", id |-> id, code |-> 0, keys |-> out.keys,
     capabilities |-> out.capabilities, tools |-> out.tools]

\* The code the except branch of handle_rpc puts in every error object.
InternalErrorCode == -32603

\* The response of the except branch of handle_rpc.
ErrorResponse(id) ==
    [kind |-> "error", id |-> id, code |-> InternalErrorCode, keys |-> {},
     capabilities |-> NoCapabilities, tools |-> << >>]

\* An exception left handle_rpc: no JSON-RPC response is written.
Crashed == [NoResponse EXCEPT !.kind = "crash"]

(***************************************************************************)
(* The streaming channel: handle_sse.                                      *)
(***************************************************************************)

\* The capabilities mapping of the 'initialized' notification.
SseCapabilities == { << "tools", TRUE >> }

HeartbeatInterval_Doubled == 30 + 30

\* asyncio.sleep(30)
HeartbeatInterval == 30

\* No heartbeat has been emitted yet.
NoGap == 0 - 1

\* No handler runs for the stream.
IdleStream ==
    [pc |-> "idle",           \* the await the handler is suspended on
     connected |-> FALSE,     \* the client holds the connection
     cancelling |-> FALSE,    \* the handler's task has been cancelled
     released |-> FALSE,      \* the sse_response context has been left
     failed |-> FALSE,        \* an exception is leaving the context
     first |-> "none",        \* the first message emitted
     inits |-> 0,             \* 'initialized' notifications emitted
     capabilities |-> NoCapabilities,  \* payload of the notification
     pings |-> 0,             \* heartbeats emitted (counted up to MaxPings)
     parity |-> 0,            \* flips with every heartbeat emitted
     waited |-> 0,            \* time slept since the last message
     lastGap |-> NoGap,       \* time slept before the last heartbeat
     late |-> 0]              \* messages emitted to a client that had left

\* resp.task.done(): the task is the one running the handler.
TaskDone(stream) == stream.pc \in {"returned", "raised"}

\* One message leaves through resp.send.
Emit(stream, kind) ==
    [stream EXCEPT
        !.first = IF stream.first = "none" THEN kind ELSE stream.first,
        !.late = IF stream.connected THEN stream.late ELSE 1]

\* The await of sse_response.__aexit__ completes: the exception that left
\* the block is raised again, else the handler returns resp.
Exit(stream) ==
    [stream EXCEPT !.pc = IF stream.failed THEN "raised" ELSE "returned",
                   !.released = TRUE]

\* The 'async with sse_response(request)' block is left, by an exception
\* (failed) or at its end: __aexit__ is awaited.  What that await does is
\* the context manager's: it suspends the handler (held) or completes at
\* once.
Leave(stream, failed, held) ==
    LET leaving == [stream EXCEPT !.failed = failed]
    IN  IF held THEN [leaving EXCEPT !.pc = "aexit"] ELSE Exit(leaving)

\* The statement after a completed send or at loop entry: the while test,
\* then asyncio.sleep or the end of the block.
LoopTest(stream, held) ==
    IF TaskDone(stream)
    THEN Leave(stream, FALSE, held)
    ELSE [stream EXCEPT !.pc = "sleep"]

\* resp.send of the 'initialized' notification completes.
SendInitialized(stream, held) ==
    LoopTest([Emit(stream, "initialized") EXCEPT
                !.inits = stream.inits + 1,
                !.capabilities = SseCapabilities], held)

\* asyncio.sleep(30) completes.
SleepDone(stream) ==
    [stream EXCEPT !.pc = "send_ping",
                   !.waited = stream.waited + HeartbeatInterval]

\* resp.send of the heartbeat completes.
SendPing(stream, held) ==
    LoopTest([Emit(stream, "ping") EXCEPT
                !.pings = IF stream.pings < MaxPings
                          THEN stream.pings + 1 ELSE stream.pings,
                !.parity = 1 - stream.parity,
                !.lastGap = stream.waited,
                !.waited = 0], held)

\* CancelledError is raised at the await the handler is suspended on.
\* Inside the try of the keep-alive loop it is swallowed and the block ends;
\* at resp.prepare and at the first resp.send it leaves the block; either
\* way __aexit__ is awaited next.  At the await of __aenter__ the block was
\* never entered, and at the await of __aexit__ nothing is left to catch
\* it: the exception leaves the handler.
Cancelled(stream, held) ==
    LET thrown == [stream EXCEPT !.cancelling = FALSE]
    IN  CASE stream.pc \in {"sleep", "send_ping"} -> Leave(thrown, FALSE, held)
          [] stream.pc \in {"prepare", "send_init"} -> Leave(thrown, TRUE, held)
          [] OTHER -> [thrown EXCEPT !.pc = "raised"]

(***************************************************************************)
(* State.                                                                  *)
(***************************************************************************)
VARIABLES
    rpc,    \* rpc[s]: the handle_rpc coroutine of slot s and its request
    sse,    \* sse[st]: the handle_sse coroutine of stream st
    gw,     \* the EmbeddingsModel instance and its last embed / embed_batch
    tool,   \* the execute coroutine of a tool class and what it has issued
    store   \* what the vector store and the graph store hold

vars == << rpc, sse, gw, tool, store >>

\* EmbeddingsModel.__init__: the normalize flag is fixed at construction
\* (False by default); nothing has been embedded yet.
EmbeddingsModel(normalize) ==
    [normalize |-> normalize, op |-> "none", raws |-> << >>,
     status |-> "idle", out |-> << >>]

\* execute has not finished.
NoResult ==
    [kind |-> "none", success |-> FALSE, error |-> "", data |-> << >>]

\* execute has built no request for its store.
NoRequest == [op |-> "none"]

\* No execute coroutine of a tool class is running.  Of a running one: at
\* is the await it is suspended on, request the request it has built,
\* storeLog the requests it has issued, cursor the records of the result
\* session.run returned, and pending the outcome (a return value or the
\* failure of a caught exception) with which it is leaving the session
\* block.
IdleTool ==
    [pc |-> "idle", at |-> "none", name |-> Absent, arguments |-> << >>,
     gateway |-> FALSE, modelLog |-> << >>, request |-> NoRequest,
     storeLog |-> << >>, cursor |-> << >>, pending |-> NoResult,
     result |-> NoResult]

\* Both stores as the server finds them: no collection, no node (and no
\* node id given out yet), no relationship.
EmptyStore ==
    [collections |-> {}, nodes |-> << >>, created |-> 0,
     relationships |-> << >>]

\* No coroutine runs in the slot.
IdleSlot ==
    [pc |-> "idle",
     body |-> [json |-> "invalid", method |-> Absent, params |-> NoParams,
               id |-> Absent],
     handler |-> "none", args |-> {}, storeCalls |-> 0, modelCalls |-> 0,
     at |-> "none",        \* the store await the handler is suspended on
     failed |-> FALSE,     \* an exception is leaving the session block
     plain |-> TRUE,       \* json.dumps accepts every record appended so far
     resp |-> NoResponse]

\* handle_rpc from request.json() to the first store await or the response.
handle_rpc(body, modelFault) ==
    IF body.json = "invalid"
    THEN \* request.json() raises; 'data' is not in locals(): id None
         [IdleSlot EXCEPT !.pc = "done", !.body = body,
                          !.resp = ErrorResponse(Null)]
    ELSE IF body.json = "nonobject"
    THEN \* data.get raises AttributeError, in the try and again in the except
         [IdleSlot EXCEPT !.pc = "done", !.body = body, !.resp = Crashed]
    ELSE LET out == process_method(body.method, body.params, modelFault) IN
         [pc |-> IF out.status = "await" THEN "await_store" ELSE "done",
          body |-> body,
          handler |-> out.handler,
          args |-> out.args,
          storeCalls |-> IF out.status = "await" THEN 1 ELSE 0,
          modelCalls |-> out.modelCalls,
          at |-> IF out.status = "await" THEN FirstAwait(out.handler)
                 ELSE "none",
          failed |-> FALSE,
          plain |-> TRUE,
          resp |-> CASE out.status = "return" -> ResultResponse(GetId(body), out)
                     [] out.status = "raise" -> ErrorResponse(GetId(body))
                     [] OTHER -> NoResponse]

\* A store handler and handle_rpc from the completion of the await the
\* handler is suspended on to its next await or to the response.  The await
\* raised (storeFault) or returned; more: the iteration has another record
\* (the handler appends it and awaits the next).
\* An exception raised inside the session block leaves it through the
\* awaited __aexit__, and handle_rpc turns it into the error response.
\* neo4j_create_relationship evaluates int(from_id) and int(to_id) inside
\* the block, before session.run is called: for an id that is no number
\* int raises ValueError and the query is never run.
\* native: the record just fetched holds only values json.dumps accepts
\* (no Node, Relationship, temporal or spatial value).  The handlers that
\* iterate the result put the records' values into the mapping they
\* return, and web.json_response(...) is evaluated inside the try of
\* handle_rpc: for a value it cannot encode json.dumps raises TypeError and
\* the except branch answers the error response.
handle_rpc_resume(slot, storeFault, more, native) ==
    LET failure == [slot EXCEPT !.pc = "done", !.at = "none",
                                !.resp = ErrorResponse(GetId(slot.body))]
        returned ==
            [slot EXCEPT
                !.pc = "done", !.at = "none",
                !.resp = ResultResponse(GetId(slot.body),
                            Returned(ResultKeys(slot.handler, slot.args),
                                     NoCapabilities, << >>, slot.handler,
                                     slot.modelCalls))]
        finish == IF slot.plain THEN returned ELSE failure
        leave(failed) ==
            [slot EXCEPT !.at = "session.__aexit__", !.failed = failed]
    IN  CASE slot.at = "qdrant_client" ->
                IF storeFault THEN failure ELSE finish
          [] slot.at = "session.__aenter__" ->
                IF storeFault THEN failure
                ELSE IF /\ slot.handler = "neo4j_create_relationship"
                        /\ ~ArgumentsOrDefault(slot.body.params).numeric
                THEN leave(TRUE)
                ELSE [slot EXCEPT !.at = "session.run"]
          [] slot.at = "session.run" ->
                IF storeFault THEN leave(TRUE)
                ELSE [slot EXCEPT !.at = AfterRun(slot.handler)]
          [] slot.at = "result.single" -> leave(storeFault)
          [] slot.at = "result.__anext__" ->
                IF storeFault THEN leave(TRUE)
                ELSE IF more THEN [slot EXCEPT !.plain = slot.plain /\ native]
                ELSE leave(FALSE)
          [] slot.at = "session.__aexit__" ->
                IF storeFault \/ slot.failed THEN failure ELSE finish

Init ==
    /\ rpc = [s \in Slots |-> IdleSlot]
    /\ sse = [st \in Streams |-> IdleStream]
    /\ gw = EmbeddingsModel(FALSE)
    /\ tool = IdleTool
    /\ store = EmptyStore

\* handle_rpc returns its response in the same uninterrupted run that built
\* it: a slot in "done" holds the response just returned, and the transport
\* takes it (Release) before any other coroutine runs.
NoResponsePending == \A s \in Slots : rpc[s].pc # "done"

\* The faults the embedding model can show a request: it is consulted only
\* when the handler reaches an encode call.
ModelFaults(body) ==
    IF process_method(body.method, body.params, TRUE).exc = "ModelFault"
    THEN BOOLEAN ELSE {FALSE}

\* What the completion of an await can say about a record: only the
\* iteration of the result fetches one.
Fetched(at) == IF at = "result.__anext__" THEN BOOLEAN ELSE {FALSE}

\* A client posts a body to /rpc.
Receive(s) ==
    /\ NoResponsePending
    /\ rpc[s].pc = "idle"
    /\ \E body \in Bodies :
          \E modelFault \in ModelFaults(body) :
              rpc' = [rpc EXCEPT ![s] = handle_rpc(body, modelFault)]
    /\ UNCHANGED << sse, gw, tool, store >>

\* The await of the store a handler is suspended on completes.
StoreReply(s) ==
    /\ NoResponsePending
    /\ rpc[s].pc = "await_store"
    /\ \E storeFault \in BOOLEAN :
       \E more, native \in Fetched(rpc[s].at) :
          rpc' = [rpc EXCEPT ![s] =
                    handle_rpc_resume(rpc[s], storeFault, more, native)]
    /\ UNCHANGED << sse, gw, tool, store >>

\* The response has been written; the coroutine is gone.
Release(s) ==
    /\ rpc[s].pc = "done"
    /\ rpc' = [rpc EXCEPT ![s] = IdleSlot]
    /\ UNCHANGED << sse, gw, tool, store >>

Next ==
    \/ \E s \in Slots : Receive(s)
    \/ \E s \in Slots : StoreReply(s)
    \/ \E s \in Slots : Release(s)

Spec == Init /\ [][Next]_vars

\* A client opens GET /sse: the handler awaits sse_response.__aenter__,
\* which suspends it (held) or completes at once, and then resp.prepare.
Open(st) ==
    /\ sse[st].pc = "idle"
    /\ \E held \in BOOLEAN :
          sse' = [sse EXCEPT ![st] =
                    [IdleStream EXCEPT
                        !.pc = IF held THEN "aenter" ELSE "prepare",
                        !.connected = TRUE]]
    /\ UNCHANGED << rpc, gw, tool, store >>

\* The await of sse_response.__aenter__ completes; the handler awaits
\* resp.prepare.
Entered(st) ==
    /\ sse[st].pc = "aenter"
    /\ ~sse[st].cancelling
    /\ sse' = [sse EXCEPT ![st].pc = "prepare"]
    /\ UNCHANGED << rpc, gw, tool, store >>

\* resp.prepare completes; the handler awaits the first resp.send.
Prepared(st) ==
    /\ sse[st].pc = "prepare"
    /\ ~sse[st].cancelling
    /\ sse' = [sse EXCEPT ![st].pc = "send_init"]
    /\ UNCHANGED << rpc, gw, tool, store >>

InitializedSent(st) ==
    /\ sse[st].pc = "send_init"
    /\ ~sse[st].cancelling
    /\ \E held \in BOOLEAN :
          sse' = [sse EXCEPT ![st] = SendInitialized(sse[st], held)]
    /\ UNCHANGED << rpc, gw, tool, store >>

Slept(st) ==
    /\ sse[st].pc = "sleep"
    /\ ~sse[st].cancelling
    /\ sse' = [sse EXCEPT ![st] = SleepDone(sse[st])]
    /\ UNCHANGED << rpc, gw, tool, store >>

PingSent(st) ==
    /\ sse[st].pc = "send_ping"
    /\ ~sse[st].cancelling
    /\ \E held \in BOOLEAN :
          sse' = [sse EXCEPT ![st] = SendPing(sse[st], held)]
    /\ UNCHANGED << rpc, gw, tool, store >>

\* The client goes away; the server cancels the task of the handler, which
\* is suspended on one of its awaits.
Disconnect(st) ==
    /\ sse[st].pc \in {"aenter", "prepare", "send_init", "sleep", "send_ping"}
    /\ sse[st].connected
    /\ sse' = [sse EXCEPT ![st].connected = FALSE, ![st].cancelling = TRUE]
    /\ UNCHANGED << rpc, gw, tool, store >>

\* The server stops (web.run_app cleans up) while a handler whose client
\* has gone is still leaving its block: the task is cancelled again.
Shutdown(st) ==
    /\ sse[st].pc = "aexit"
    /\ ~sse[st].cancelling
    /\ sse' = [sse EXCEPT ![st].cancelling = TRUE]
    /\ UNCHANGED << rpc, gw, tool, store >>

\* The cancelled task is resumed: CancelledError is thrown into the handler.
CancelDelivered(st) ==
    /\ sse[st].cancelling
    /\ \E held \in BOOLEAN :
          sse' = [sse EXCEPT ![st] = Cancelled(sse[st], held)]
    /\ UNCHANGED << rpc, gw, tool, store >>

\* The await of sse_response.__aexit__ completes.
Exited(st) ==
    /\ sse[st].pc = "aexit"
    /\ ~sse[st].cancelling
    /\ sse' = [sse EXCEPT ![st] = Exit(sse[st])]
    /\ UNCHANGED << rpc, gw, tool, store >>

\* The finished handler is forgotten.
Forget(st) ==
    /\ sse[st].pc \in {"returned", "raised"}
    /\ sse' = [sse EXCEPT ![st] = IdleStream]
    /\ UNCHANGED << rpc, gw, tool, store >>

StreamStep(st) ==
    \/ Entered(st)
    \/ Prepared(st)
    \/ InitializedSent(st)
    \/ Slept(st)
    \/ PingSent(st)
    \/ CancelDelivered(st)
    \/ Exited(st)

StreamNext ==
    \/ \E st \in Streams : Open(st)
    \/ \E st \in Streams : StreamStep(st)
    \/ \E st \in Streams : Disconnect(st)
    \/ \E st \in Streams : Shutdown(st)
    \/ \E st \in Streams : Forget(st)

StreamSpec == Init /\ [][StreamNext]_vars

\* The event loop resumes every coroutine whose await has completed, and a
\* timer that was set fires.
StreamFairSpec ==
    StreamSpec /\ \A st \in Streams : WF_vars(StreamStep(st))

(***************************************************************************)
(* Properties of the RPC entry point.                                      *)
(***************************************************************************)

\* handle_rpc has answered the request of slot s (or failed to).
Answered(s) == rpc[s].pc = "done"

\* The request of slot s is a tools/call whose params is a mapping (an
\* absent params member is defaulted to the empty mapping).
IsToolCall(s) ==
    /\ rpc[s].pc # "idle"
    /\ rpc[s].body.json = "object"
    /\ rpc[s].body.method = "tools/call"
    /\ rpc[s].body.params.kind \in {"dict", "absent"}

\* The codes the tests of the server expect for the two protocol errors.
MethodNotFoundCode == -32601

ParseErrorCode == -32700

\* C1: every answered tools/call that names a registered tool carries a
\* result with a success field (and an error string when it failed) and no
\* RPC-level error, whatever the handler, the store or the model did.
C1_ToolOutcomeIsResult ==
    \A s \in Slots :
        (Answered(s) /\ IsToolCall(s) /\ rpc[s].body.params.name \in CatalogNames)
        => /\ rpc[s].resp.kind = "result"
           /\ "success" \in rpc[s].resp.keys

\* C2 as stated: a tools/call naming no registered tool is answered with a
\* failure-shaped result (success, error) and not with an RPC error, and no
\* handler, store or model is invoked.
C2_UnknownToolIsToolFailure ==
    \A s \in Slots :
        (Answered(s) /\ IsToolCall(s) /\ rpc[s].body.params.name \notin CatalogNames)
        => /\ rpc[s].resp.kind = "result"
           /\ {"success", "error"} \subseteq rpc[s].resp.keys
           /\ rpc[s].handler = "none"
           /\ rpc[s].storeCalls = 0
           /\ rpc[s].modelCalls = 0

\* C3: a request whose method is none of initialize, tools/list, tools/call
\* is answered with an RPC error of code -32601, the id echoed, no result,
\* and no tool run.
C3_UnknownMethodIsMethodNotFound ==
    \A s \in Slots :
        (/\ Answered(s)
         /\ rpc[s].body.json = "object"
         /\ rpc[s].body.method \notin {"initialize", "tools/list", "tools/call"})
        => /\ rpc[s].resp.kind = "error"
           /\ rpc[s].resp.code = MethodNotFoundCode
           /\ rpc[s].resp.id = IF rpc[s].body.id = Absent THEN Null
                               ELSE rpc[s].body.id
           /\ rpc[s].handler = "none"

\* C4: a body that is not parseable JSON is answered with an RPC error of
\* code -32700, and no method is routed and no tool runs.
C4_BadJsonIsParseError ==
    \A s \in Slots :
        (Answered(s) /\ rpc[s].body.json = "invalid")
        => /\ rpc[s].resp.kind = "error"
           /\ rpc[s].resp.code = ParseErrorCode
           /\ rpc[s].handler = "none"

\* C5: tools/list always returns the same catalog: exactly the 11 registered
\* names (4 graph, 5 vector-store, 2 embedding), each once, each with a
\* schema that has a type; answering it invokes no handler, store or model;
\* and the listed names are exactly the names tools/call dispatches to a
\* handler.
C5_CatalogStable ==
    /\ \A s \in Slots :
          (Answered(s) /\ rpc[s].body.json = "object"
                       /\ rpc[s].body.method = "tools/list")
          => /\ rpc[s].resp.kind = "result"
             /\ rpc[s].resp.keys = {"tools"}
             /\ Len(rpc[s].resp.tools) = 11
             /\ \A i, j \in 1..Len(rpc[s].resp.tools) :
                   rpc[s].resp.tools[i].name = rpc[s].resp.tools[j].name => i = j
             /\ \A i \in 1..Len(rpc[s].resp.tools) :
                   "type" \in DOMAIN rpc[s].resp.tools[i].inputSchema
             /\ { rpc[s].resp.tools[i].name : i \in 1..Len(rpc[s].resp.tools) }
                   = GraphToolNames \cup VectorStoreToolNames \cup EmbeddingToolNames
             /\ \A t \in Slots :
                   (Answered(t) /\ rpc[t].body.method = "tools/list")
                   => rpc[t].resp.tools = rpc[s].resp.tools
             /\ rpc[s].handler = "none"
             /\ rpc[s].storeCalls = 0
             /\ rpc[s].modelCalls = 0
    /\ Cardinality(GraphToolNames) = 4
    /\ Cardinality(VectorStoreToolNames) = 5
    /\ Cardinality(EmbeddingToolNames) = 2
    /\ \A s \in Slots :
          IsToolCall(s) =>
             (rpc[s].handler # "none" <=>
                rpc[s].body.params.name
                   \in GraphToolNames \cup VectorStoreToolNames \cup EmbeddingToolNames)

C5_Witness ==
    \E s, t \in Slots :
        /\ s # t
        /\ Answered(s)
        /\ rpc[s].body.method = "tools/list"
        /\ rpc[s].resp.kind = "result"
        /\ rpc[t].pc = "await_store"
        /\ rpc[t].handler = "qdrant_delete_points"

\* C6: every response to a body that parsed as a JSON object echoes the id
\* of the request it answers (null when the request has none), with a result
\* or with an error, and so never carries the differing id of another
\* request in flight.
C6_IdEchoed ==
    \A s \in Slots :
        (Answered(s) /\ rpc[s].body.json = "object")
        => /\ rpc[s].resp.kind \in {"result", "error"}
           /\ rpc[s].body.id \in RequestIds => rpc[s].resp.id = rpc[s].body.id
           /\ rpc[s].body.id = Absent => rpc[s].resp.id = Null
           /\ \A t \in Slots :
                 (/\ t # s
                  /\ rpc[t].pc # "idle"
                  /\ rpc[t].body.id \in RequestIds
                  /\ rpc[t].body.id # rpc[s].body.id)
                 => rpc[s].resp.id # rpc[t].body.id

C6_Witness ==
    \E s, t \in Slots :
        /\ Answered(s)
        /\ rpc[s].body.method = "tools/call"
        /\ rpc[s].resp.kind = "error"
        /\ rpc[s].resp.id = "id_a"
        /\ rpc[t].pc = "await_store"
        /\ rpc[t].body.id = "id_b"

\* C7 as stated: a tools/call from which params.name or params.arguments is
\* absent invokes no tool handler.
C7_NameAndArgumentsRequired ==
    \A s \in Slots :
        (/\ IsToolCall(s)
         /\ \/ rpc[s].body.params.name = Absent
            \/ rpc[s].body.params.arguments = Absent)
        => rpc[s].handler = "none"

\* C7 amended: a tools/call from which params.name is absent is answered
\* with an RPC error without invoking any handler; one that names a
\* registered tool and has no params.arguments invokes that tool's handler
\* with the empty argument mapping.
C7_NameRequiredArgumentsDefaulted ==
    \A s \in Slots :
        IsToolCall(s) =>
            /\ rpc[s].body.params.name = Absent
               => /\ Answered(s)
                  /\ rpc[s].resp.kind = "error"
                  /\ rpc[s].handler = "none"
            /\ (/\ rpc[s].body.params.arguments = Absent
                /\ rpc[s].body.params.name \in CatalogNames)
               => /\ rpc[s].handler = rpc[s].body.params.name
                  /\ rpc[s].args = {}

C7_Witness ==
    \E s, t \in Slots :
        /\ Answered(s)
        /\ IsToolCall(s)
        /\ rpc[s].body.params.kind = "dict"
        /\ rpc[s].body.params.arguments = Absent
        /\ rpc[s].handler = "embeddings_model_info"
        /\ rpc[s].resp.kind = "result"
        /\ rpc[t].pc = "await_store"
        /\ rpc[t].body.params.name = "qdrant_search"

(***************************************************************************)
(* Properties of the streaming channel.                                    *)
(***************************************************************************)

\* C8: the first message of a stream is the 'initialized' notification, it
\* is emitted once per stream, and its capabilities equal the capabilities
\* the initialize method returns.
C8_InitializedOnceSameCapabilities ==
    \A st \in Streams :
        /\ sse[st].first \in {"none", "initialized"}
        /\ sse[st].inits <= 1
        /\ sse[st].pc \in {"sleep", "send_ping", "returned"} => sse[st].inits = 1
        /\ sse[st].inits >= 1 => sse[st].capabilities = InitializeCapabilities

\* C9: once the client of a stream has disconnected, whatever await the
\* cancelled handler was suspended on, no message is emitted, the connection
\* is released and the handler returns without raising.
C9_CleanDisconnect ==
    \A st \in Streams :
        /\ sse[st].late = 0
        /\ sse[st].pc # "raised"
        /\ sse[st].pc = "returned" => sse[st].released

\* C10: every heartbeat follows the 'initialized' notification of its
\* stream, every heartbeat is emitted after a wait of exactly 30 time units
\* since the previous message, and while the client stays connected a
\* further heartbeat is always eventually emitted.
C10_Heartbeats ==
    /\ [](\A st \in Streams :
            /\ sse[st].pings > 0
               => (sse[st].first = "initialized" /\ sse[st].inits = 1)
            /\ sse[st].lastGap \in {NoGap, 30}
            /\ sse[st].pings > 0 <=> sse[st].lastGap = 30
            /\ sse[st].waited \in {0, 30})
    /\ \A st \in Streams :
          \/ []<>~(sse[st].pc \in {"sleep", "send_ping"} /\ sse[st].connected)
          \/ \A b \in {0, 1} : []<>(sse[st].parity = b)

C10_Witness ==
    \E st \in Streams :
        /\ sse[st].connected
        /\ sse[st].pc = "sleep"
        /\ sse[st].pings >= 2
        /\ sse[st].parity = 0
        /\ sse[st].lastGap = 30

\* ---------------------------------------------------------------------
\* tools/embeddings_tools.py: EmbeddingsModel, the embedding gateway.
\* Raw model outputs are vectors on an integer grid; one grid step is half
\* of the 1e-10 floor that embed_batch applies to a norm, so that raw norms
\* below, at and above the floor all occur.

MaxComp == 2
EmbeddingDimension == 2
MaxBatch == 2
Epsilon == 2

Vectors == [1..EmbeddingDimension -> 0..MaxComp]

RECURSIVE SumSq(_, _)
SumSq(v, n) == IF n = 0 THEN 0 ELSE v[n] * v[n] + SumSq(v, n - 1)

\* The square of np.linalg.norm(v), in grid steps.
NormSq(v) == SumSq(v, Len(v))

IsZero(v) == \A i \in 1..Len(v) : v[i] = 0

\* A vector as the model returned it: num grid steps, nothing divided.
Raw(v) == [num |-> v, den2 |-> 0]

\* v / d for a d of square d2: the quotient num / sqrt(den2).  A zero
\* vector divided by anything positive is the zero vector itself.
Divide(v, d2) == IF IsZero(v) THEN Raw(v) ELSE [num |-> v, den2 |-> d2]

\* np.maximum on two squared norms.
Maximum(a, b) == IF a >= b THEN a ELSE b

\* EmbeddingsModel.embed: encode, then divide by the norm when the flag is
\* set and the norm is positive; a fault of the model is logged and raised.
embed(normalize, raw, fault) ==
    IF fault
    THEN [status |-> "raise", out |-> << >>]
    ELSE [status |-> "return",
          out |-> << IF normalize /\ NormSq(raw) > 0
                     THEN Divide(raw, NormSq(raw))
                     ELSE Raw(raw) >>]

\* EmbeddingsModel.embed_batch: encode all texts at once, then divide each
\* row by the larger of its norm and 1e-10.
embed_batch(normalize, raws, fault) ==
    IF fault
    THEN [status |-> "raise", out |-> << >>]
    ELSE [status |-> "return",
          out |-> [i \in 1..Len(raws) |->
                      IF normalize
                      THEN Divide(raws[i],
                                  Maximum(NormSq(raws[i]), Epsilon * Epsilon))
                      ELSE Raw(raws[i])]]

\* The raw outputs the model can give for a list of at most MaxBatch texts.
RawBatches == UNION {[1..n -> Vectors] : n \in 0..MaxBatch}

GatewayInit ==
    /\ rpc = [s \in Slots |-> IdleSlot]
    /\ sse = [st \in Streams |-> IdleStream]
    /\ gw \in {EmbeddingsModel(normalize) : normalize \in BOOLEAN}
    /\ tool = IdleTool
    /\ store = EmptyStore

\* A caller embeds one text whose raw embedding is raw.
GatewayEmbed ==
    /\ \E raw \in Vectors, fault \in BOOLEAN :
          LET r == embed(gw.normalize, raw, fault)
          IN  gw' = [gw EXCEPT !.op = "embed", !.raws = << raw >>,
                               !.status = r.status, !.out = r.out]
    /\ UNCHANGED << rpc, sse, tool, store >>

\* A caller embeds a list of texts whose raw embeddings are raws.
GatewayEmbedBatch ==
    /\ \E raws \in RawBatches, fault \in BOOLEAN :
          LET r == embed_batch(gw.normalize, raws, fault)
          IN  gw' = [gw EXCEPT !.op = "embed_batch", !.raws = raws,
                               !.status = r.status, !.out = r.out]
    /\ UNCHANGED << rpc, sse, tool, store >>

GatewayNext ==
    \/ GatewayEmbed
    \/ GatewayEmbedBatch

GatewaySpec == GatewayInit /\ [][GatewayNext]_vars

\* C13: embed_batch returns one vector per input, in input order, and its
\* i-th vector is the vector embed returns for the i-th text alone, under
\* the same model and the same normalization flag.
C13_BatchEqualsSingle ==
    (gw.op = "embed_batch" /\ gw.status = "return") =>
        /\ Len(gw.out) = Len(gw.raws)
        /\ \A i \in 1..Len(gw.raws) :
              gw.out[i] = embed(gw.normalize, gw.raws[i], FALSE).out[1]

\* The square of the Euclidean norm of a returned vector is 1.
HasUnitNorm(x) == x.den2 > 0 /\ NormSq(x.num) = x.den2

\* C14: with normalization on, embed and embed_batch return a vector of
\* norm 1 for every non-zero raw embedding and the zero vector for a zero
\* one; with normalization off they return the raw vector.
C14_UnitNormOrUnchanged ==
    gw.status = "return" =>
        \A i \in 1..Len(gw.raws) :
            IF gw.normalize /\ ~IsZero(gw.raws[i])
            THEN HasUnitNorm(gw.out[i])
            ELSE gw.out[i] = Raw(gw.raws[i])

\* ---------------------------------------------------------------------
\* The tool classes of tools/neo4j_tools.py, tools/qdrant_tools.py and
\* tools/embeddings_tools.py.  An argument mapping is a function whose
\* domain is the set of supplied keys; a value carries its Python type.

Omitted == [type |-> "omitted", val |-> << >>]
PyStr(s) == [type |-> "str", val |-> << s >>]
PyInt(s) == [type |-> "int", val |-> << s >>]
PyBool(s) == [type |-> "bool", val |-> << s >>]
PyList(items) == [type |-> "list", val |-> items]
PyDict(entries) == [type |-> "dict", val |-> entries]

\* A vector: the caller's literal, or the one the gateway returned for a text.
Vector(origin, of) ==
    [type |-> "vector", origin |-> origin, of |-> of,
     len |-> EmbeddingDimension]

\* The mapping a caller sends: the keys of f it did not omit.
Supplied(f) ==
    [k \in {key \in DOMAIN f : f[key].type # "omitted"} |-> f[k]]

\* arguments.get(key, default)
Get(arguments, key, default) ==
    IF key \in DOMAIN arguments THEN arguments[key] ELSE default

\* A number a caller sends (a limit, a score), and arguments.get(key, default)
\* of a numeric argument.
PyNum(n) == [type |-> "num", num |-> n]
GetNumber(arguments, key, default) ==
    IF key \in DOMAIN arguments THEN arguments[key].num ELSE default

\* The result mappings of execute, an exception leaving execute, and the
\* ways one run of execute can stop: finished, awaiting the one call it
\* makes of the vector-store client, or entering 'async with
\* self.driver.session()' with the query it is about to run.
Success(data) ==
    [kind |-> "return", success |-> TRUE, error |-> "", data |-> data]
Failure(message) ==
    [kind |-> "return", success |-> FALSE, error |-> message, data |-> << >>]
Escaped(message) ==
    [kind |-> "raise", success |-> FALSE, error |-> message, data |-> << >>]

Done(result, modelLog) ==
    [pc |-> "done", at |-> "none", result |-> result, modelLog |-> modelLog,
     request |-> NoRequest, storeLog |-> << >>]
Await(request, modelLog) ==
    [pc |-> "await_store", at |-> "client", result |-> NoResult,
     modelLog |-> modelLog, request |-> request, storeLog |-> << request >>]
Enter(request, modelLog) ==
    [pc |-> "await_store", at |-> "session.__aenter__", result |-> NoResult,
     modelLog |-> modelLog, request |-> request, storeLog |-> << >>]

\* str(e) of a fault of the embedding model, and the texts of the
\* exceptions a driver or a client raises: execute hands str(e) on, whatever
\* it is.
ModelFaultMessage == "model failure"
StoreFaultMessages == {"Connection failed", "Session expired"}
StoreFailures == {Failure(message) : message \in StoreFaultMessages}

\* One call of the gateway as a tool sees it, and whether it raised.
EmbedCall(text, raised) ==
    [op |-> "embed", texts |-> << text >>, raised |-> raised]
EmbedBatchCall(texts, raised) ==
    [op |-> "embed_batch", texts |-> texts, raised |-> raised]

\* separator.join(parts)
RECURSIVE Join(_, _)
Join(parts, separator) ==
    IF Len(parts) = 0 THEN ""
    ELSE IF Len(parts) = 1 THEN parts[1]
    ELSE parts[1] \o separator \o Join(Tail(parts), separator)

\* Neo4jQueryTool.execute without the isinstance check of the query.
Neo4jQueryTool_Unchecked(arguments) ==
    IF "query" \notin DOMAIN arguments
    THEN Done(Failure("Missing required parameter: query"), << >>)
    ELSE Enter([op |-> "session.run",
                query |-> arguments["query"].val[1],
                parameters |-> Get(arguments, "parameters", PyDict(<< >>))],
               << >>)

\* Neo4jQueryTool.execute up to 'async with self.driver.session()'.
Neo4jQueryTool(arguments) ==
    IF "query" \notin DOMAIN arguments
    THEN Done(Failure("Missing required parameter: query"), << >>)
    ELSE IF arguments["query"].type # "str"
    THEN Done(Failure("Query must be a string"), << >>)
    ELSE Enter([op |-> "session.run",
                query |-> arguments["query"].val[1],
                parameters |-> Get(arguments, "parameters", PyDict(<< >>))],
               << >>)

\* properties[key] = value on an insertion-ordered dict.
SetItem(entries, key, value) ==
    IF \E i \in 1..Len(entries) : entries[i].key = key
    THEN [i \in 1..Len(entries) |->
             IF entries[i].key = key
             THEN [key |-> key, value |-> value] ELSE entries[i]]
    ELSE Append(entries, [key |-> key, value |-> value])

\* The text_parts loop without the exclusion of the embedding property.
TextParts_TargetIncluded(entries, embedding_property) ==
    LET kept == SelectSeq(entries, LAMBDA e : e.value.type = "str")
    IN  [i \in 1..Len(kept) |-> kept[i].key \o ": " \o kept[i].value.val[1]]

\* The text_parts loop of Neo4jCreateNodeTool.execute.
TextParts(entries, embedding_property) ==
    LET kept == SelectSeq(entries,
                    LAMBDA e : e.value.type = "str" /\ e.key # embedding_property)
    IN  [i \in 1..Len(kept) |-> kept[i].key \o ": " \o kept[i].value.val[1]]

\* The query text of Neo4jCreateNodeTool.execute, blanks collapsed.
CreateNodeQuery(labels) ==
    "CREATE (n:" \o Join(labels, ":")
        \o ") SET n = $properties RETURN n, id(n) as id, labels(n) as labels"

\* Neo4jCreateNodeTool.execute up to 'async with self.driver.session()'.
Neo4jCreateNodeTool(arguments, gateway, modelFault) ==
    IF "labels" \notin DOMAIN arguments
    THEN Done(Failure("Missing required parameter: labels"), << >>)
    ELSE IF arguments["labels"].type # "list"
    THEN Done(Failure("Labels must be a list"), << >>)
    ELSE IF arguments["labels"].val = << >>
    THEN Done(Failure("At least one label is required"), << >>)
    ELSE
      LET labels == arguments["labels"].val
          properties == Get(arguments, "properties", PyDict(<< >>)).val
          create_embedding ==
              Get(arguments, "create_embedding", PyBool("False")).val[1] = "True"
          embedding_property ==
              Get(arguments, "embedding_property", PyStr("embedding")).val[1]
          text_parts == TextParts(properties, embedding_property)
          embeds == create_embedding /\ gateway /\ text_parts # << >>
          combined_text == Join(text_parts, " ")
          modelLog == IF embeds THEN << EmbedCall(combined_text, modelFault) >> ELSE << >>
          stored == IF embeds
                    THEN SetItem(properties, embedding_property,
                                 Vector("gateway", combined_text))
                    ELSE properties
      IN  IF embeds /\ modelFault
          THEN Done(Failure(ModelFaultMessage), modelLog)
          ELSE Enter([op |-> "session.run",
                      query |-> CreateNodeQuery(labels),
                      parameters |-> [properties |-> stored]],
                     modelLog)

\* The query text of Neo4jCreateRelationshipTool.execute, blanks collapsed.
CreateRelationshipQuery(rel_type) ==
    "MATCH (a), (b) WHERE id(a) = $start_id AND id(b) = $end_id CREATE (a)-[r:"
        \o rel_type \o "]->(b) SET r = $properties RETURN r, a, b, type(r) as type"

\* The required-parameter loop of Neo4jCreateRelationshipTool.execute.
RequiredParams == << "start_node_id", "end_node_id", "relationship_type" >>

RECURSIVE FirstMissing(_, _)
FirstMissing(arguments, params) ==
    IF params = << >> THEN Absent
    ELSE IF Head(params) \notin DOMAIN arguments THEN Head(params)
    ELSE FirstMissing(arguments, Tail(params))

\* Neo4jCreateRelationshipTool.execute up to 'async with
\* self.driver.session()'.
Neo4jCreateRelationshipTool(arguments) ==
    IF FirstMissing(arguments, RequiredParams) # Absent
    THEN Done(Failure("Missing required parameter: "
                        \o FirstMissing(arguments, RequiredParams)), << >>)
    ELSE Enter([op |-> "session.run",
                query |-> CreateRelationshipQuery(
                              arguments["relationship_type"].val[1]),
                parameters |->
                    [start_id |-> arguments["start_node_id"],
                     end_id |-> arguments["end_node_id"],
                     properties |-> Get(arguments, "properties", PyDict(<< >>)).val]],
               << >>)

DefaultLimit == 10
DefaultMinSimilarity == 0

\* The query text of Neo4jVectorSearchTool.execute, blanks collapsed: the
\* label and the embedding property are interpolated (the property six
\* times, in the cosine spelled out as dot / (norm * norm)), the rest is
\* bound as parameters.
VectorSearchQuery(label, embedding_property) ==
    LET p == "n." \o embedding_property
        range == "i IN range(0, size(" \o p \o ")-1) | "
    IN  "MATCH (n:" \o label \o ") WHERE " \o p \o " IS NOT NULL WITH n, "
        \o "reduce(dot = 0.0, " \o range
        \o "dot + " \o p \o "[i] * $query_vector[i]) / "
        \o "(sqrt(reduce(sum1 = 0.0, " \o range
        \o "sum1 + " \o p \o "[i] * " \o p \o "[i])) * "
        \o "sqrt(reduce(sum2 = 0.0, i IN range(0, size($query_vector)-1) | "
        \o "sum2 + $query_vector[i] * $query_vector[i]))) AS similarity"
        \o " WHERE similarity >= $min_similarity RETURN n, similarity"
        \o " ORDER BY similarity DESC LIMIT $limit"

\* Neo4jVectorSearchTool.execute searching with no query vector when
\* neither input was supplied.
Neo4jVectorSearchTool_NoElse(arguments, gateway, modelFault) ==
    IF "label" \notin DOMAIN arguments
    THEN Done(Failure("Missing required parameter: label"), << >>)
    ELSE
      LET request(query_vector) ==
              [op |-> "session.run",
               query |-> VectorSearchQuery(arguments["label"].val[1],
                   Get(arguments, "embedding_property", PyStr("embedding")).val[1]),
               parameters |->
                   [query_vector |-> query_vector,
                    min_similarity |->
                        GetNumber(arguments, "min_similarity", DefaultMinSimilarity),
                    limit |-> GetNumber(arguments, "limit", DefaultLimit)]]
      IN  IF "query_text" \in DOMAIN arguments /\ gateway
          THEN LET text == arguments["query_text"].val[1]
               IN  IF modelFault
                   THEN Done(Escaped(ModelFaultMessage),
                             << EmbedCall(text, modelFault) >>)
                   ELSE Enter(request(Vector("gateway", text)),
                              << EmbedCall(text, modelFault) >>)
          ELSE Enter(request(Get(arguments, "query_vector",
                                 Vector("caller", "missing"))), << >>)

\* Neo4jVectorSearchTool.execute up to 'async with self.driver.session()'.
\* The query text is embedded before the try block is entered.
Neo4jVectorSearchTool(arguments, gateway, modelFault) ==
    IF "label" \notin DOMAIN arguments
    THEN Done(Failure("Missing required parameter: label"), << >>)
    ELSE
      LET embedding_property ==
              Get(arguments, "embedding_property", PyStr("embedding")).val[1]
          request(query_vector) ==
              [op |-> "session.run",
               query |-> VectorSearchQuery(arguments["label"].val[1],
                                           embedding_property),
               parameters |->
                   [query_vector |-> query_vector,
                    min_similarity |->
                        GetNumber(arguments, "min_similarity", DefaultMinSimilarity),
                    limit |-> GetNumber(arguments, "limit", DefaultLimit)]]
      IN  IF "query_text" \in DOMAIN arguments /\ gateway
          THEN LET text == arguments["query_text"].val[1]
               IN  IF modelFault
                   THEN Done(Escaped(ModelFaultMessage), << EmbedCall(text, modelFault) >>)
                   ELSE Enter(request(Vector("gateway", text)),
                              << EmbedCall(text, modelFault) >>)
          ELSE IF "query_vector" \in DOMAIN arguments
          THEN Enter(request(arguments["query_vector"]), << >>)
          ELSE Done(Failure("Either query_text or query_vector must be provided"),
                    << >>)

\* Python's None.
None == [type |-> "None"]

\* key in d, and d[key], on a dict value.
DictHas(d, key) == \E i \in 1..Len(d.val) : d.val[i].key = key
DictGet(d, key) ==
    d.val[CHOOSE i \in 1..Len(d.val) : d.val[i].key = key].value

\* The key under which distance_map holds a member of Distance.
DistanceName(distance_enum) ==
    CASE distance_enum = "Distance.COSINE" -> "Cosine"
      [] distance_enum = "Distance.EUCLID" -> "Euclid"
      [] distance_enum = "Distance.DOT" -> "Dot"

\* distance_map.get(distance) with no default: Cosine whatever is asked.
DistanceEnum_CosineOnly(distance) == "Distance.COSINE"

\* distance_map.get(distance, Distance.COSINE)
DistanceEnum(distance) ==
    CASE distance = PyStr("Cosine") -> "Distance.COSINE"
      [] distance = PyStr("Euclid") -> "Distance.EUCLID"
      [] distance = PyStr("Dot") -> "Distance.DOT"
      [] OTHER -> "Distance.COSINE"

\* QdrantCreateCollectionTool.execute up to its await of create_collection.
QdrantCreateCollectionTool(arguments) ==
    IF "collection_name" \notin DOMAIN arguments
    THEN Done(Failure("Missing required parameter: collection_name"), << >>)
    ELSE IF "vector_size" \notin DOMAIN arguments
    THEN Done(Failure("Missing required parameter: vector_size"), << >>)
    ELSE Await([op |-> "create_collection",
                collection_name |-> arguments["collection_name"],
                vectors_config |->
                    [size |-> arguments["vector_size"],
                     distance |-> DistanceEnum(
                         Get(arguments, "distance", PyStr("Cosine")))]],
               << >>)

\* PointStruct(id=..., vector=..., payload=...) for an input point.
PointStruct(point_data, vector) ==
    [id |-> Get(point_data, "id", PyStr("uuid4")),
     vector |-> vector,
     payload |-> Get(point_data, "payload", PyDict(<< >>))]

\* The branch the first loop of QdrantUpsertPointsTool.execute takes for
\* a point.
PointBranch(point_data, gateway) ==
    IF "text" \in DOMAIN point_data /\ gateway THEN "text"
    ELSE IF "vector" \in DOMAIN point_data THEN "vector"
    ELSE "neither"

\* text_indices and texts_to_embed after the first loop.
RECURSIVE TextIndices(_, _, _)
TextIndices(points_data, gateway, i) ==
    IF i > Len(points_data) THEN << >>
    ELSE IF PointBranch(points_data[i], gateway) = "text"
    THEN << i >> \o TextIndices(points_data, gateway, i + 1)
    ELSE TextIndices(points_data, gateway, i + 1)

TextsToEmbed(points_data, gateway) ==
    LET text_indices == TextIndices(points_data, gateway, 1)
    IN  [k \in 1..Len(text_indices) |->
            points_data[text_indices[k]]["text"].val[1]]

\* The zip loop giving every placeholder the first vector of the batch.
SplicedPoints_FirstVector(points_data, gateway, embeddings) ==
    [i \in 1..Len(points_data) |->
        IF PointBranch(points_data[i], gateway) = "vector"
        THEN PointStruct(points_data[i], points_data[i]["vector"])
        ELSE IF embeddings # << >>
        THEN PointStruct(points_data[i], embeddings[1])
        ELSE None]

\* The points list after the first loop and after the zip loop that fills
\* the placeholders from the vectors embed_batch returned.
SplicedPoints(points_data, gateway, embeddings) ==
    LET text_indices == TextIndices(points_data, gateway, 1)
        filled == IF Len(embeddings) < Len(text_indices)
                  THEN Len(embeddings) ELSE Len(text_indices)
    IN  [i \in 1..Len(points_data) |->
            IF PointBranch(points_data[i], gateway) = "vector"
            THEN PointStruct(points_data[i], points_data[i]["vector"])
            ELSE IF \E k \in 1..filled : text_indices[k] = i
            THEN PointStruct(points_data[i],
                     embeddings[CHOOSE k \in 1..filled : text_indices[k] = i])
            ELSE None]

\* The first loop skipping a point that has neither a text nor a vector
\* instead of returning.
QdrantUpsertPointsTool_SkipInvalid(arguments, gateway, modelFault, embeddings) ==
    IF "collection_name" \notin DOMAIN arguments
    THEN Done(Failure("Missing required parameter: collection_name"), << >>)
    ELSE IF "points" \notin DOMAIN arguments
    THEN Done(Failure("Missing required parameter: points"), << >>)
    ELSE
      LET points_data ==
              SelectSeq(arguments["points"].val,
                        LAMBDA p : PointBranch(p, gateway) # "neither")
          texts_to_embed == TextsToEmbed(points_data, gateway)
          modelLog == IF texts_to_embed # << >>
                      THEN << EmbedBatchCall(texts_to_embed, modelFault) >>
                      ELSE << >>
      IN  IF texts_to_embed # << >> /\ modelFault
          THEN Done(Failure(ModelFaultMessage), modelLog)
          ELSE Await([op |-> "upsert",
                      collection_name |-> arguments["collection_name"],
                      points |-> SplicedPoints(points_data, gateway, embeddings)],
                     modelLog)

\* QdrantUpsertPointsTool.execute up to its await of client.upsert;
\* embeddings is what embed_batch returns for the texts of this call.
QdrantUpsertPointsTool(arguments, gateway, modelFault, embeddings) ==
    IF "collection_name" \notin DOMAIN arguments
    THEN Done(Failure("Missing required parameter: collection_name"), << >>)
    ELSE IF "points" \notin DOMAIN arguments
    THEN Done(Failure("Missing required parameter: points"), << >>)
    ELSE
      LET points_data == arguments["points"].val
          invalid == {i \in 1..Len(points_data) :
                         PointBranch(points_data[i], gateway) = "neither"}
          texts_to_embed == TextsToEmbed(points_data, gateway)
          modelLog == IF texts_to_embed # << >>
                      THEN << EmbedBatchCall(texts_to_embed, modelFault) >> ELSE << >>
      IN  IF invalid # {}
          THEN Done(Failure("Point at index "
                      \o ToString((CHOOSE i \in invalid :
                                      \A j \in invalid : i <= j) - 1)
                      \o " must have either 'text' or 'vector'"), << >>)
          ELSE IF texts_to_embed # << >> /\ modelFault
          THEN Done(Failure(ModelFaultMessage), modelLog)
          ELSE Await([op |-> "upsert",
                      collection_name |-> arguments["collection_name"],
                      points |-> SplicedPoints(points_data, gateway, embeddings)],
                     modelLog)

\* The query_filter QdrantSearchTool.execute builds: None unless a filter
\* with a "must" entry was supplied.
QueryFilter(arguments) ==
    IF "filter" \in DOMAIN arguments /\ DictHas(arguments["filter"], "must")
    THEN LET must == DictGet(arguments["filter"], "must").val
         IN  [type |-> "Filter",
              must |-> [i \in 1..Len(must) |->
                          [key |-> DictGet(must[i], "key"),
                           match |-> DictGet(DictGet(must[i], "match"), "value")]]]
    ELSE None

\* QdrantSearchTool.execute up to its await of client.search.  The query
\* text is embedded before the try block is entered.
QdrantSearchTool(arguments, gateway, modelFault) ==
    IF "collection_name" \notin DOMAIN arguments
    THEN Done(Failure("Missing required parameter: collection_name"), << >>)
    ELSE
      LET request(query_vector) ==
              [op |-> "search",
               collection_name |-> arguments["collection_name"],
               query_vector |-> query_vector,
               query_filter |-> QueryFilter(arguments),
               limit |-> GetNumber(arguments, "limit", DefaultLimit),
               score_threshold |-> Get(arguments, "score_threshold", None)]
      IN  IF "query_text" \in DOMAIN arguments /\ gateway
          THEN LET text == arguments["query_text"].val[1]
               IN  IF modelFault
                   THEN Done(Escaped(ModelFaultMessage), << EmbedCall(text, modelFault) >>)
                   ELSE Await(request(Vector("gateway", text)),
                              << EmbedCall(text, modelFault) >>)
          ELSE IF "query_vector" \in DOMAIN arguments
          THEN Await(request(arguments["query_vector"]), << >>)
          ELSE Done(Failure("Either query_text or query_vector must be provided"),
                    << >>)

\* QdrantGetCollectionInfoTool.execute up to its await of get_collection.
QdrantGetCollectionInfoTool(arguments) ==
    IF "collection_name" \notin DOMAIN arguments
    THEN Done(Failure("Missing required parameter: collection_name"), << >>)
    ELSE Await([op |-> "get_collection",
                collection_name |-> arguments["collection_name"]], << >>)

\* QdrantDeletePointsTool.execute leaving the first id out of the batch.
QdrantDeletePointsTool_TailOnly(arguments) ==
    IF "collection_name" \notin DOMAIN arguments
    THEN Done(Failure("Missing required parameter: collection_name"), << >>)
    ELSE IF "point_ids" \notin DOMAIN arguments
    THEN Done(Failure("Missing required parameter: point_ids"), << >>)
    ELSE Await([op |-> "delete",
                collection_name |-> arguments["collection_name"],
                points_selector |->
                    PyList(Tail(arguments["point_ids"].val))], << >>)

\* QdrantDeletePointsTool.execute up to its await of client.delete.
QdrantDeletePointsTool(arguments) ==
    IF "collection_name" \notin DOMAIN arguments
    THEN Done(Failure("Missing required parameter: collection_name"), << >>)
    ELSE IF "point_ids" \notin DOMAIN arguments
    THEN Done(Failure("Missing required parameter: point_ids"), << >>)
    ELSE Await([op |-> "delete",
                collection_name |-> arguments["collection_name"],
                points_selector |-> arguments["point_ids"]], << >>)

\* What embed_batch returns for a list of texts: one vector per text, in
\* order.
BatchEmbeddings(texts) == [i \in 1..Len(texts) |-> Vector("gateway", texts[i])]

\* self.embeddings_model.model_name: the name the gateway was built with.
model_name == "nomic-ai/nomic-embed-text-v1.5"

\* EmbeddingsGenerateTool.execute: the whole body is inside the try block
\* and awaits nothing.
EmbeddingsGenerateTool(arguments, modelFault) ==
    IF "text" \in DOMAIN arguments
    THEN LET text == arguments["text"].val[1]
         IN  Done(IF modelFault THEN Failure(ModelFaultMessage)
                  ELSE Success([embedding |-> Vector("gateway", text),
                                model |-> model_name,
                                dimension |-> EmbeddingDimension]),
                  << EmbedCall(text, modelFault) >>)
    ELSE IF "texts" \in DOMAIN arguments
    THEN LET texts == arguments["texts"].val
         IN  Done(IF modelFault THEN Failure(ModelFaultMessage)
                  ELSE Success([embeddings |-> BatchEmbeddings(texts),
                                model |-> model_name,
                                dimension |-> EmbeddingDimension]),
                  << EmbedBatchCall(texts, modelFault) >>)
    ELSE Done(Failure("Either 'text' or 'texts' must be provided"), << >>)

\* EmbeddingsModelInfoTool.execute: reads three attributes of the model.
EmbeddingsModelInfoTool(arguments, normalize) ==
    Done(Success([model_name |-> model_name,
                  embedding_dimension |-> EmbeddingDimension,
                  normalized |-> normalize]), << >>)

ToolClasses ==
    {"Neo4jQueryTool", "Neo4jCreateNodeTool", "Neo4jCreateRelationshipTool",
     "Neo4jVectorSearchTool", "QdrantCreateCollectionTool",
     "QdrantUpsertPointsTool", "QdrantSearchTool",
     "QdrantGetCollectionInfoTool", "QdrantDeletePointsTool",
     "EmbeddingsGenerateTool", "EmbeddingsModelInfoTool"}

\* The classes whose constructor takes an embeddings_model that may be None.
GatewayOptional ==
    {"Neo4jCreateNodeTool", "Neo4jVectorSearchTool",
     "QdrantUpsertPointsTool", "QdrantSearchTool"}

\* execute of an instance of class name, run until it returns, raises or
\* awaits its store; normalize is the flag of the gateway it holds.
execute(name, arguments, gateway, modelFault, normalize) ==
    CASE name = "Neo4jQueryTool" -> Neo4jQueryTool(arguments)
      [] name = "Neo4jCreateNodeTool" ->
            Neo4jCreateNodeTool(arguments, gateway, modelFault)
      [] name = "Neo4jCreateRelationshipTool" ->
            Neo4jCreateRelationshipTool(arguments)
      [] name = "Neo4jVectorSearchTool" ->
            Neo4jVectorSearchTool(arguments, gateway, modelFault)
      [] name = "QdrantCreateCollectionTool" ->
            QdrantCreateCollectionTool(arguments)
      [] name = "QdrantUpsertPointsTool" ->
            QdrantUpsertPointsTool(arguments, gateway, modelFault,
                BatchEmbeddings(
                    IF "points" \in DOMAIN arguments
                    THEN TextsToEmbed(arguments["points"].val, gateway)
                    ELSE << >>))
      [] name = "QdrantSearchTool" ->
            QdrantSearchTool(arguments, gateway, modelFault)
      [] name = "QdrantGetCollectionInfoTool" ->
            QdrantGetCollectionInfoTool(arguments)
      [] name = "QdrantDeletePointsTool" -> QdrantDeletePointsTool(arguments)
      [] name = "EmbeddingsGenerateTool" ->
            EmbeddingsGenerateTool(arguments, modelFault)
      [] name = "EmbeddingsModelInfoTool" ->
            EmbeddingsModelInfoTool(arguments, normalize)

\* What a store answers: a fault (the exception raised, with its text), or
\* the rows (records, hits, info) of the operation.
StoreFault(message) ==
    [status |-> "fault", rows |-> << >>, message |-> message]
StoreFaults == {StoreFault(message) : message \in StoreFaultMessages}
StoreOk(rows) == [status |-> "ok", rows |-> rows, message |-> ""]

\* The distance of a collection as the client hands it over: a member of
\* the client library's Distance enumeration, a str-based Enum defined
\* outside this repository, and the text str() gives for it.  That text is
\* the member's value ("Cosine") if the class defines __str__ so, and the
\* qualified member name ("Distance.COSINE") if it inherits Enum's.
DistanceObjects(member) ==
    {[member |-> member, text |-> text] :
        text \in {DistanceName(member), member}}

\* record.data() of a record of 'RETURN r, a, b, type(r) as type': the
\* driver exports a node as the dict of its properties and a relationship
\* as the tuple (properties of the start node, type name, properties of the
\* end node).
RelationshipData(start, rel_type, end) ==
    [r |-> << start, rel_type, end >>, a |-> start, b |-> end,
     type |-> rel_type]

\* The rows each operation's store call can return: the columns of the
\* RETURN clause of the Cypher text as the driver exports them, a scored
\* point, the collection info.
Rows(name) ==
    CASE name = "Neo4jQueryTool" -> {[n |-> "row"]}
      [] name = "Neo4jCreateNodeTool" ->
            {[n |-> << >>, id |-> PyInt("1"), labels |-> << "Person" >>]}
      [] name = "Neo4jCreateRelationshipTool" ->
            {RelationshipData(start, rel_type, end) :
                start \in {<< [key |-> "name", value |-> PyStr("Ada")] >>,
                           << [key |-> "name", value |-> PyStr("Ada")],
                              [key |-> "age", value |-> PyInt("36")] >>},
                rel_type \in {"KNOWS", "IN"},
                end \in {<< >>,
                         << [key |-> "name", value |-> PyStr("Bob")],
                            [key |-> "age", value |-> PyInt("41")] >>}}
      [] name = "Neo4jVectorSearchTool" -> {[n |-> << >>, similarity |-> 1]}
      [] name = "QdrantSearchTool" ->
            {[id |-> PyStr("p1"), score |-> 1, payload |-> << >>]}
      [] name = "QdrantGetCollectionInfoTool" ->
            {[status |-> "green", vectors_count |-> 0, points_count |-> 0,
              size |-> PyInt("384"), distance |-> distance] :
                distance \in DistanceObjects("Distance.COSINE")}

StoreReplies(name) ==
    StoreFaults \cup
    CASE name \in {"Neo4jQueryTool", "Neo4jCreateNodeTool",
                   "Neo4jCreateRelationshipTool", "Neo4jVectorSearchTool",
                   "QdrantSearchTool"} ->
            {StoreOk(<< >>)} \cup {StoreOk(<< row >>) : row \in Rows(name)}
      [] name = "QdrantGetCollectionInfoTool" ->
            {StoreOk(<< row >>) : row \in Rows(name)}
      [] OTHER -> {StoreOk(<< >>)}

\* str(info.config.params.vectors.distance): the text the object the
\* client returned gives for itself.
MetricName(distance_enum) == distance_enum.text

\* dict(pairs) of a sequence: every element has to be an iterable of exactly
\* two items (iterating a dict gives its keys, iterating a str its
\* characters); for the first element that is not, dict raises ValueError
\* with this text.
DictOf(pairs) ==
    LET short == {k \in 1..Len(pairs) : Len(pairs[k]) # 2} IN
    IF short = {} THEN [raised |-> FALSE, message |-> ""]
    ELSE LET k == CHOOSE i \in short : \A j \in short : i <= j IN
         [raised |-> TRUE,
          message |-> "dictionary update sequence element #" \o
                      ToString(k - 1) \o " has length " \o
                      ToString(Len(pairs[k])) \o "; 2 is required"]

\* The result execute builds from the reply of its store call (the records
\* result.data() or result.single() hands over, the value the client's call
\* returns), and the failure result of its except branch when the call
\* raised.
execute_resume(t, reply) ==
    LET arguments == t.arguments
        request == t.storeLog[1]
        rows == reply.rows
    IN  IF reply.status = "fault" THEN Failure(reply.message)
        ELSE CASE t.name = "Neo4jQueryTool" -> Success([data |-> rows])
          [] t.name = "Neo4jCreateNodeTool" ->
                IF rows # << >>
                THEN Success([node |-> [id |-> rows[1].id,
                                        labels |-> rows[1].labels,
                                        properties |-> rows[1].n]])
                ELSE Failure("Failed to create node")
          [] t.name = "Neo4jCreateRelationshipTool" ->
                \* The success mapping is built member by member:
                \* dict(data["r"]) is given the exported tuple, and
                \* data["a"].labels is asked of the exported dict, which
                \* has no such attribute.  Either raises inside the
                \* session block, after the statement has run, and the
                \* except branch returns str(e).
                IF rows # << >>
                THEN LET data == rows[1]
                         properties == DictOf(data.r)
                     IN  IF properties.raised
                         THEN Failure(properties.message)
                         ELSE Failure("'dict' object has no attribute 'labels'")
                ELSE Failure("Failed to create relationship - nodes not found")
          [] t.name = "Neo4jVectorSearchTool" ->
                Success([results |->
                    [i \in 1..Len(rows) |->
                        [node |-> rows[i].n,
                         similarity |-> rows[i].similarity]]])
          [] t.name = "QdrantSearchTool" ->
                Success([results |->
                    [i \in 1..Len(rows) |->
                        [id |-> rows[i].id, score |-> rows[i].score,
                         payload |-> rows[i].payload]]])
          [] t.name = "QdrantCreateCollectionTool" ->
                Success([collection_name |-> arguments["collection_name"],
                         vector_size |-> arguments["vector_size"],
                         distance |-> Get(arguments, "distance", PyStr("Cosine"))])
          [] t.name = "QdrantUpsertPointsTool" ->
                Success([collection_name |-> arguments["collection_name"],
                         count |-> Len(request.points)])
          [] t.name = "QdrantGetCollectionInfoTool" ->
                Success([status |-> rows[1].status,
                         vectors_count |-> rows[1].vectors_count,
                         points_count |-> rows[1].points_count,
                         vector_size |-> rows[1].size,
                         distance |-> MetricName(rows[1].distance)])
          [] t.name = "QdrantDeletePointsTool" ->
                Success([collection_name |-> arguments["collection_name"],
                         deleted_count |-> Len(arguments["point_ids"].val)])

\* The await that follows session.run in each graph class.
ResultAwait(name) ==
    IF name \in {"Neo4jCreateNodeTool", "Neo4jCreateRelationshipTool"}
    THEN "result.single" ELSE "result.data"

\* The awaits at which the store executes the request: the others (entering
\* and leaving the session, fetching the records) return or raise.
Executes(at) == at \in {"client", "session.run"}

\* execute from the completion of the await it is suspended on to its next
\* await or its return.  Every await is inside the try block of its class:
\* an exception raised inside the session block leaves it through the
\* awaited __aexit__ and the except branch returns the failure result; a
\* return inside the block is delivered once __aexit__ has returned.
execute_next(t, reply) ==
    LET fault == reply.status = "fault"
        return(result) ==
            [t EXCEPT !.pc = "done", !.at = "none", !.cursor = << >>,
                      !.pending = NoResult, !.result = result]
        leave(outcome) ==
            [t EXCEPT !.at = "session.__aexit__", !.cursor = << >>,
                      !.pending = outcome]
    IN  CASE t.at = "client" -> return(execute_resume(t, reply))
          [] t.at = "session.__aenter__" ->
                IF fault THEN return(Failure(reply.message))
                ELSE [t EXCEPT !.at = "session.run",
                               !.storeLog = << t.request >>]
          [] t.at = "session.run" ->
                IF fault THEN leave(Failure(reply.message))
                ELSE [t EXCEPT !.at = ResultAwait(t.name),
                               !.cursor = reply.rows]
          [] t.at \in {"result.data", "result.single"} ->
                IF fault THEN leave(Failure(reply.message))
                ELSE leave(execute_resume(t, StoreOk(t.cursor)))
          [] t.at = "session.__aexit__" ->
                IF fault THEN return(Failure(reply.message))
                ELSE return(t.pending)

\* What the await a coroutine is suspended on can answer when the store is
\* left open.
Replies(t) ==
    IF Executes(t.at) THEN StoreReplies(t.name)
    ELSE StoreFaults \cup {StoreOk(<< >>)}

\* The coroutine of execute(arguments) on an instance of class name, where
\* its first run stopped.
Frame(name, arguments, gateway, step) ==
    [pc |-> step.pc, at |-> step.at, name |-> name, arguments |-> arguments,
     gateway |-> gateway, modelLog |-> step.modelLog,
     request |-> step.request, storeLog |-> step.storeLog,
     cursor |-> << >>, pending |-> NoResult, result |-> step.result]

\* ---- The argument mappings callers send.

MaxProps == 2
MaxPoints == 2

\* A label and a relationship type that are identifiers, and ones that are
\* not.
InjectedLabel == "Person) DETACH DELETE n //"
InjectedType == "KNOWS]->(b) DETACH DELETE a //"
Identifiers == {"Person", "Employee", "Document", "KNOWS"}

PropertyPool ==
    {[key |-> "name", value |-> PyStr("Ada")],
     [key |-> "bio", value |-> PyStr("poet")],
     [key |-> "age", value |-> PyInt("36")],
     [key |-> "embedding", value |-> PyStr("stale")]}

\* The dicts of at most MaxProps properties, in every insertion order.
PropertyLists ==
    UNION {{es \in [1..n -> PropertyPool] :
               \A i, j \in 1..n : es[i] = es[j] => i = j} : n \in 0..MaxProps}

\* The point at (0-based) position i - 1 of a request, with the given keys.
Point(i, keys) ==
    [k \in keys |->
        CASE k = "id" -> PyStr("p" \o ToString(i))
          [] k = "text" -> PyStr("text " \o ToString(i))
          [] k = "vector" -> Vector("caller", "v" \o ToString(i))
          [] k = "payload" ->
                PyDict(<< [key |-> "n", value |-> PyInt(ToString(i))] >>)]

PointKeys == SUBSET {"id", "text", "vector", "payload"}

PointLists ==
    UNION {{[i \in 1..n |-> Point(i, ks[i])] : ks \in [1..n -> PointKeys]} :
              n \in 0..MaxPoints}

MustFilter ==
    PyDict(<< [key |-> "must", value |-> PyList(<<
        PyDict(<< [key |-> "key", value |-> PyStr("category")],
                  [key |-> "match", value |->
                      PyDict(<< [key |-> "value", value |-> PyStr("tech")] >>)] >>)
        >>)] >>)
ShouldFilter ==
    PyDict(<< [key |-> "should", value |-> PyList(<<
        PyDict(<< [key |-> "key", value |-> PyStr("category")],
                  [key |-> "match", value |->
                      PyDict(<< [key |-> "value", value |-> PyStr("tech")] >>)] >>)
        >>)] >>)

ArgumentsOf(name) ==
    CASE name = "Neo4jQueryTool" ->
            {Supplied([query |-> q]) :
                q \in {Omitted, PyStr("MATCH (n) RETURN n"), PyInt("123")}}
      [] name = "Neo4jCreateNodeTool" ->
            {Supplied([labels |-> l, properties |-> p,
                       create_embedding |-> c, embedding_property |-> e]) :
                l \in {Omitted, PyStr("Person"), PyList(<< >>),
                       PyList(<< "Person" >>), PyList(<< "Person", "Employee" >>),
                       PyList(<< InjectedLabel >>)},
                p \in {Omitted} \cup {PyDict(es) : es \in PropertyLists},
                c \in {Omitted, PyBool("True")},
                e \in {Omitted, PyStr("bio")}}
      [] name = "Neo4jCreateRelationshipTool" ->
            {Supplied([start_node_id |-> s, end_node_id |-> e,
                       relationship_type |-> r]) :
                s \in {Omitted, PyInt("1")}, e \in {Omitted, PyInt("2")},
                r \in {Omitted, PyStr("KNOWS"), PyStr(InjectedType)}}
      [] name = "Neo4jVectorSearchTool" ->
            {Supplied([label |-> l, query_text |-> t, query_vector |-> v]) :
                l \in {Omitted, PyStr("Document")},
                t \in {Omitted, PyStr("graph databases")},
                v \in {Omitted, Vector("caller", "q")}}
      [] name = "QdrantCreateCollectionTool" ->
            {Supplied([collection_name |-> c, vector_size |-> s,
                       distance |-> d]) :
                c \in {Omitted, PyStr("docs")}, s \in {Omitted, PyInt("384")},
                d \in {Omitted, PyStr("Cosine"), PyStr("Euclid"), PyStr("Dot"),
                       PyStr("Manhattan")}}
      [] name = "QdrantUpsertPointsTool" ->
            {Supplied([collection_name |-> c, points |-> p]) :
                c \in {Omitted, PyStr("docs")},
                p \in {Omitted} \cup {PyList(ps) : ps \in PointLists}}
      [] name = "QdrantSearchTool" ->
            {Supplied([collection_name |-> c, query_text |-> t,
                       query_vector |-> v, filter |-> f]) :
                c \in {Omitted, PyStr("docs")},
                t \in {Omitted, PyStr("graph databases")},
                v \in {Omitted, Vector("caller", "q")},
                f \in {Omitted, MustFilter, ShouldFilter}}
      [] name = "QdrantGetCollectionInfoTool" ->
            {Supplied([collection_name |-> c]) : c \in {Omitted, PyStr("docs")}}
      [] name = "QdrantDeletePointsTool" ->
            {Supplied([collection_name |-> c, point_ids |-> p]) :
                c \in {Omitted, PyStr("docs")},
                p \in {Omitted, PyList(<< >>), PyList(<< "p1" >>),
                       PyList(<< "p1", "p2" >>)}}
      [] name = "EmbeddingsGenerateTool" ->
            {Supplied([text |-> t, texts |-> ts]) :
                t \in {Omitted, PyStr("hello")},
                ts \in {Omitted, PyList(<< >>), PyList(<< "a", "b" >>)}}
      [] name = "EmbeddingsModelInfoTool" -> {Supplied([none |-> Omitted])}

\* The gateway raises only if execute calls it.
ToolModelFaults(name, arguments, gateway) ==
    IF execute(name, arguments, gateway, TRUE, FALSE).modelLog # << >>
    THEN BOOLEAN ELSE {FALSE}

\* A caller awaits execute(arguments) on an instance of a tool class.
ToolCall ==
    /\ tool.pc = "idle"
    /\ \E name \in ToolClasses :
       \E arguments \in ArgumentsOf(name) :
       \E gateway \in (IF name \in GatewayOptional THEN BOOLEAN ELSE {TRUE}) :
       \E modelFault \in ToolModelFaults(name, arguments, gateway) :
          tool' = Frame(name, arguments, gateway,
                        execute(name, arguments, gateway, modelFault,
                                gw.normalize))
    /\ UNCHANGED << rpc, sse, gw, store >>

\* The await execute is suspended on returns or raises.
ToolStoreReply ==
    /\ tool.pc = "await_store"
    /\ \E reply \in Replies(tool) : tool' = execute_next(tool, reply)
    /\ UNCHANGED << rpc, sse, gw, store >>

\* The caller has the outcome of execute; the coroutine is gone.
ToolRelease ==
    /\ tool.pc = "done"
    /\ tool' = IdleTool
    /\ UNCHANGED << rpc, sse, gw, store >>

ToolNext ==
    \/ ToolCall
    \/ ToolStoreReply
    \/ ToolRelease

ToolSpec == Init /\ [][ToolNext]_vars

\* C11: execute of every tool class never raises: whatever the store or the
\* embedding model does, a finished call has returned a result mapping, and
\* a failed one carries an error message.
C11_ExecuteNeverRaises ==
    tool.pc = "done" =>
        /\ tool.result.kind = "return"
        /\ ~tool.result.success => tool.result.error # ""

\* The fields each class requires, in the order it checks them.
RequiredFields(name) ==
    CASE name = "Neo4jQueryTool" -> << "query" >>
      [] name = "Neo4jCreateNodeTool" -> << "labels" >>
      [] name = "Neo4jCreateRelationshipTool" -> RequiredParams
      [] name = "Neo4jVectorSearchTool" -> << "label" >>
      [] name = "QdrantCreateCollectionTool" -> << "collection_name", "vector_size" >>
      [] name = "QdrantUpsertPointsTool" -> << "collection_name", "points" >>
      [] name = "QdrantSearchTool" -> << "collection_name" >>
      [] name = "QdrantGetCollectionInfoTool" -> << "collection_name" >>
      [] name = "QdrantDeletePointsTool" -> << "collection_name", "point_ids" >>
      [] OTHER -> << >>

\* What is wrong with the required fields of an argument mapping: the error
\* messages that name a missing or mistyped required field.
Problems(name, arguments) ==
    {"Missing required parameter: " \o RequiredFields(name)[i] :
        i \in {j \in 1..Len(RequiredFields(name)) :
                  RequiredFields(name)[j] \notin DOMAIN arguments}}
    \cup (IF name = "Neo4jQueryTool" /\ "query" \in DOMAIN arguments
             /\ arguments["query"].type # "str"
          THEN {"Query must be a string"} ELSE {})
    \cup (IF name = "Neo4jCreateNodeTool" /\ "labels" \in DOMAIN arguments
             /\ arguments["labels"].type # "list"
          THEN {"Labels must be a list"} ELSE {})
    \cup (IF name = "Neo4jCreateNodeTool" /\ "labels" \in DOMAIN arguments
             /\ arguments["labels"] = PyList(<< >>)
          THEN {"At least one label is required"} ELSE {})

\* C12: a call whose required field is missing or mistyped returns a
\* failure result naming such a problem and calls neither the graph driver,
\* nor the vector-store client, nor the embedding model.
C12_ValidatedBeforeAnyCall ==
    (tool.pc # "idle" /\ Problems(tool.name, tool.arguments) # {}) =>
        /\ tool.pc = "done"
        /\ tool.result.kind = "return"
        /\ ~tool.result.success
        /\ tool.result.error \in Problems(tool.name, tool.arguments)
        /\ tool.modelLog = << >>
        /\ tool.storeLog = << >>

C12_Witness ==
    /\ tool.pc = "done"
    /\ tool.name = "Neo4jVectorSearchTool"
    /\ tool.gateway
    /\ "query_text" \in DOMAIN tool.arguments
    /\ "label" \notin DOMAIN tool.arguments
    /\ tool.result = Failure("Missing required parameter: label")
    /\ tool.modelLog = << >>

\* C15: nothing is attempted twice.  One tool call invokes the embedding
\* model at most once and issues at most one store operation, in the tool
\* classes and in the handlers tools/call runs alike; when the model
\* invocation raises, the call fails with that fault, nothing is attempted
\* again and no store operation is issued.
C15_NoRetries ==
    /\ Len(tool.modelLog) <= 1
    /\ Len(tool.storeLog) <= 1
    /\ (tool.modelLog # << >> /\ tool.modelLog[1].raised) =>
          /\ tool.pc = "done"
          /\ ~tool.result.success
          /\ tool.result.error = ModelFaultMessage
          /\ tool.storeLog = << >>
    /\ \A s \in Slots :
          /\ rpc[s].modelCalls <= 1
          /\ rpc[s].storeCalls <= 1

\* The texts of the text-bearing points of a request, in point order.
RECURSIVE TextsOf(_)
TextsOf(points_data) ==
    IF points_data = << >> THEN << >>
    ELSE (IF "text" \in DOMAIN Head(points_data)
          THEN << Head(points_data)["text"].val[1] >> ELSE << >>)
         \o TextsOf(Tail(points_data))

\* An upsert that reached the store made one embed_batch call on texts (none
\* if texts is empty) and its single request carries, at every position i,
\* input point i's id and payload, with the embedding of its text if
\* embedded(i) and its own vector otherwise; on success the reported count
\* is the number of input points.
UpsertSplices(texts, embedded(_)) ==
    LET points_data == tool.arguments["points"].val
        sent == tool.storeLog[1].points
    IN  /\ Len(tool.storeLog) = 1
        /\ tool.storeLog[1].op = "upsert"
        /\ tool.modelLog = IF texts = << >> THEN << >>
                           ELSE << EmbedBatchCall(texts, FALSE) >>
        /\ Len(sent) = Len(points_data)
        /\ \A i \in 1..Len(points_data) :
              /\ sent[i] # None
              /\ "id" \in DOMAIN points_data[i] =>
                    sent[i].id = points_data[i]["id"]
              /\ sent[i].payload = Get(points_data[i], "payload", PyDict(<< >>))
              /\ sent[i].vector =
                    IF embedded(i)
                    THEN Vector("gateway", points_data[i]["text"].val[1])
                    ELSE points_data[i]["vector"]
        /\ (tool.pc = "done" /\ tool.result.success) =>
              tool.result.data.count = Len(points_data)

\* C16 as stated: every upsert that reaches the store has embedded all its
\* text-bearing points in one embed_batch call, and position i of the
\* request carries the generated embedding whenever input point i had a
\* text.
C16_EveryTextEmbedded ==
    (tool.name = "QdrantUpsertPointsTool" /\ tool.storeLog # << >>) =>
        UpsertSplices(TextsOf(tool.arguments["points"].val),
                      LAMBDA i : "text" \in DOMAIN tool.arguments["points"].val[i])

\* C16, amended: with a gateway configured the text-bearing points are
\* embedded in one embed_batch call and spliced back at their own index;
\* with no gateway nothing is embedded and every point of a request that
\* reaches the store carries its own vector.
C16_SplicedAtOriginalIndex ==
    (tool.name = "QdrantUpsertPointsTool" /\ tool.storeLog # << >>) =>
        IF tool.gateway
        THEN UpsertSplices(TextsOf(tool.arguments["points"].val),
                 LAMBDA i : "text" \in DOMAIN tool.arguments["points"].val[i])
        ELSE UpsertSplices(<< >>, LAMBDA i : FALSE)

C16_Witness ==
    /\ tool.name = "QdrantUpsertPointsTool"
    /\ tool.gateway
    /\ tool.pc = "done"
    /\ tool.result.success
    /\ tool.result.data.count = MaxPoints
    /\ DOMAIN tool.arguments["points"].val[1] = {"id", "vector"}
    /\ \A i \in 2..MaxPoints :
          DOMAIN tool.arguments["points"].val[i] = {"id", "text", "payload"}
    /\ tool.storeLog[1].points[MaxPoints].vector =
          Vector("gateway", "text " \o ToString(MaxPoints))

\* C17: an upsert request one of whose points has neither a vector nor a
\* text returns a failure result and issues no store operation, wherever
\* that point stands among valid ones.
C17_AllOrNothing ==
    (tool.name = "QdrantUpsertPointsTool" /\ tool.pc # "idle"
        /\ "points" \in DOMAIN tool.arguments
        /\ \E i \in 1..Len(tool.arguments["points"].val) :
              {"text", "vector"} \cap DOMAIN tool.arguments["points"].val[i] = {})
    =>  /\ tool.pc = "done"
        /\ tool.result.kind = "return"
        /\ ~tool.result.success
        /\ tool.storeLog = << >>

C17_Witness ==
    /\ tool.name = "QdrantUpsertPointsTool"
    /\ tool.pc = "done"
    /\ tool.gateway
    /\ "collection_name" \in DOMAIN tool.arguments
    /\ "points" \in DOMAIN tool.arguments
    /\ Len(tool.arguments["points"].val) = MaxPoints
    /\ \A i \in 1..(MaxPoints - 1) :
          "vector" \in DOMAIN tool.arguments["points"].val[i]
    /\ DOMAIN tool.arguments["points"].val[MaxPoints] = {"id", "payload"}
    /\ tool.result = Failure("Point at index " \o ToString(MaxPoints - 1)
                               \o " must have either 'text' or 'vector'")
    /\ tool.storeLog = << >>

\* "key: value" of every string-valued property other than target, in
\* property order, separated by single blanks.
RECURSIVE SynthesisText(_, _)
SynthesisText(entries, target) ==
    IF entries = << >> THEN ""
    ELSE LET e == Head(entries)
             rest == SynthesisText(Tail(entries), target)
         IN  IF e.value.type = "str" /\ e.key # target
             THEN e.key \o ": " \o e.value.val[1]
                    \o (IF rest = "" THEN "" ELSE " " \o rest)
             ELSE rest

Keys(entries) == {entries[i].key : i \in 1..Len(entries)}

\* A CreateNode call past validation: if synthesises, it has called embed
\* exactly once, on the synthesis text, and the properties it sends to the
\* store are the caller's with the returned vector, of the gateway's
\* dimension, under the embedding property; if not, the model is not called
\* and the caller's properties are sent as they are.
CreateNodeEmbeds(synthesises) ==
    LET properties == Get(tool.arguments, "properties", PyDict(<< >>)).val
        target == Get(tool.arguments, "embedding_property",
                      PyStr("embedding")).val[1]
        text == SynthesisText(properties, target)
    IN  IF synthesises
        THEN /\ Len(tool.modelLog) = 1
             /\ tool.modelLog[1].op = "embed"
             /\ tool.modelLog[1].texts = << text >>
             /\ tool.storeLog # << >> =>
                  LET sent == tool.storeLog[1].parameters.properties
                  IN  /\ Keys(sent) = Keys(properties) \cup {target}
                      /\ Len(sent) = Cardinality(Keys(sent))
                      /\ \A i \in 1..Len(sent) :
                            IF sent[i].key = target
                            THEN /\ sent[i].value = Vector("gateway", text)
                                 /\ sent[i].value.len = EmbeddingDimension
                            ELSE \E j \in 1..Len(properties) :
                                    properties[j] = sent[i]
        ELSE /\ tool.modelLog = << >>
             /\ tool.storeLog # << >> =>
                  tool.storeLog[1].parameters.properties = properties

\* A CreateNode call that passed the validation of its labels.
CreateNodeRuns ==
    /\ tool.name = "Neo4jCreateNodeTool"
    /\ tool.pc # "idle"
    /\ Problems(tool.name, tool.arguments) = {}

SynthesisRequested ==
    /\ Get(tool.arguments, "create_embedding", PyBool("False")) = PyBool("True")
    /\ SynthesisText(
           Get(tool.arguments, "properties", PyDict(<< >>)).val,
           Get(tool.arguments, "embedding_property", PyStr("embedding")).val[1])
         # ""

\* C18 as stated: synthesis requested and a contributing string property
\* present always lead to one embed call and a stored vector.
C18_SynthesisWheneverRequested ==
    CreateNodeRuns => CreateNodeEmbeds(SynthesisRequested)

\* C18, amended: the same when the tool holds a gateway; a tool built
\* without one computes and stores no embedding.
C18_SynthesisWithGateway ==
    CreateNodeRuns => CreateNodeEmbeds(SynthesisRequested /\ tool.gateway)

C18_Witness ==
    /\ CreateNodeRuns
    /\ tool.pc = "done"
    /\ tool.result.success
    /\ tool.gateway
    /\ SynthesisRequested
    /\ "embedding_property" \notin DOMAIN tool.arguments
    /\ tool.arguments["properties"].val =
          << [key |-> "embedding", value |-> PyStr("stale")],
             [key |-> "name", value |-> PyStr("Ada")] >>
    /\ tool.modelLog = << EmbedCall("name: Ada", FALSE) >>
    /\ tool.storeLog[1].parameters.properties =
          << [key |-> "embedding", value |-> Vector("gateway", "name: Ada")],
             [key |-> "name", value |-> PyStr("Ada")] >>

\* C19: a CreateNode call with a label that is not an identifier, and a
\* CreateRelationship call with a relationship type that is not one, send
\* no query to the graph store and do not succeed.
C19_IdentifiersValidated ==
    (/\ tool.pc # "idle"
     /\ \/ /\ tool.name = "Neo4jCreateNodeTool"
           /\ "labels" \in DOMAIN tool.arguments
           /\ tool.arguments["labels"].type = "list"
           /\ \E i \in 1..Len(tool.arguments["labels"].val) :
                 tool.arguments["labels"].val[i] \notin Identifiers
        \/ /\ tool.name = "Neo4jCreateRelationshipTool"
           /\ "relationship_type" \in DOMAIN tool.arguments
           /\ tool.arguments["relationship_type"].val[1] \notin Identifiers)
    =>  /\ tool.storeLog = << >>
        /\ tool.pc = "done" => ~tool.result.success

\* The two mutually exclusive inputs of a class, and its error for neither.
EitherInputs(name) ==
    IF name = "EmbeddingsGenerateTool" THEN {"text", "texts"}
    ELSE {"query_text", "query_vector"}
EitherError(name) ==
    IF name = "EmbeddingsGenerateTool"
    THEN "Either 'text' or 'texts' must be provided"
    ELSE "Either query_text or query_vector must be provided"

EitherTools ==
    {"Neo4jVectorSearchTool", "QdrantSearchTool", "EmbeddingsGenerateTool"}

\* For the calls selected by applies: with neither input the call returns
\* the disambiguation failure and calls neither a store nor the gateway.
Disambiguates(applies) ==
    (tool.name \in EitherTools /\ tool.pc # "idle" /\ applies
        /\ EitherInputs(tool.name) \cap DOMAIN tool.arguments = {})
    =>  /\ tool.pc = "done"
        /\ tool.result = Failure(EitherError(tool.name))
        /\ tool.storeLog = << >>
        /\ tool.modelLog = << >>

\* For the calls selected by applies: a search given only a query vector
\* never uses the gateway and is not refused; the search it prepares
\* carries that vector, nothing else is issued to the store, and a call
\* that succeeds has issued it.
VectorPathNeedsNoGateway(applies) ==
    (tool.name \in {"Neo4jVectorSearchTool", "QdrantSearchTool"}
        /\ tool.pc # "idle" /\ applies
        /\ EitherInputs(tool.name) \cap DOMAIN tool.arguments = {"query_vector"})
    =>  /\ tool.modelLog = << >>
        /\ tool.arguments["query_vector"] =
              IF tool.name = "QdrantSearchTool"
              THEN tool.request.query_vector
              ELSE tool.request.parameters.query_vector
        /\ tool.storeLog \in {<< >>, << tool.request >>}
        /\ tool.pc = "done" =>
              /\ tool.result.kind = "return"
              /\ tool.result.error \in {""} \cup StoreFaultMessages
              /\ tool.result.success => tool.storeLog = << tool.request >>

\* C20 as stated: for every argument mapping without either input the
\* result is the disambiguation failure, and every vector-only search runs
\* without the gateway.
C20_DisambiguationAlways ==
    Disambiguates(TRUE) /\ VectorPathNeedsNoGateway(TRUE)

\* C20, amended: the same for calls whose required field (label,
\* collection_name) is present; without it the failure names that field.
C20_DisambiguationAfterRequired ==
    /\ Disambiguates(Problems(tool.name, tool.arguments) = {})
    /\ VectorPathNeedsNoGateway(Problems(tool.name, tool.arguments) = {})
    /\ (tool.name \in EitherTools /\ tool.pc # "idle"
          /\ Problems(tool.name, tool.arguments) # {}) =>
          tool.result.error \in Problems(tool.name, tool.arguments)

C20_Witness ==
    /\ tool.name = "Neo4jVectorSearchTool"
    /\ tool.pc = "done"
    /\ tool.gateway
    /\ DOMAIN tool.arguments = {"label"}
    /\ tool.result =
          Failure("Either query_text or query_vector must be provided")
    /\ tool.storeLog = << >>
    /\ tool.modelLog = << >>

\* A qdrant_create_collection call that passed its validation.
CreateCollectionRuns ==
    /\ tool.name = "QdrantCreateCollectionTool"
    /\ tool.pc # "idle"
    /\ Problems(tool.name, tool.arguments) = {}

\* The metric names QdrantCreateCollectionTool recognizes.
RecognizedMetrics == {"Cosine", "Euclid", "Dot"}

\* C24: a CreateCollection call with its required fields issues one
\* create_collection whose metric is the one named by distance when that is
\* Cosine, Euclid or Dot, and Cosine when distance is absent or any other
\* string; it never fails for the value of distance.
C24_MetricOrCosine ==
    CreateCollectionRuns =>
        LET distance == Get(tool.arguments, "distance", Omitted)
            named == IF distance = Omitted THEN "" ELSE distance.val[1]
        IN  /\ Len(tool.storeLog) = 1
            /\ tool.storeLog[1].op = "create_collection"
            /\ tool.storeLog[1].vectors_config.distance =
                  CASE named = "Euclid" -> "Distance.EUCLID"
                    [] named = "Dot" -> "Distance.DOT"
                    [] OTHER -> "Distance.COSINE"
            /\ tool.pc = "done" =>
                  \/ tool.result.success
                  \/ tool.result \in StoreFailures

C24_Witness ==
    /\ CreateCollectionRuns
    /\ tool.pc = "done"
    /\ tool.result.success
    /\ Get(tool.arguments, "distance", Omitted) = PyStr("Manhattan")
    /\ tool.storeLog[1].vectors_config.distance = "Distance.COSINE"


\* C30: the distance a successful qdrant_create_collection reports is the
\* metric its create_collection request configured.
C30_ReportedIsConfigured ==
    (CreateCollectionRuns /\ tool.pc = "done" /\ tool.result.success) =>
        tool.result.data.distance =
            PyStr(DistanceName(tool.storeLog[1].vectors_config.distance))

\* C26: a qdrant_search that reaches the store with a filter argument
\* carries a conjunctive filter with the caller's conditions, one per entry
\* in order; only a search without a filter argument is unfiltered.
C26_FilterNeverDropped ==
    (tool.name = "QdrantSearchTool" /\ tool.storeLog # << >>) =>
        LET sent == tool.storeLog[1].query_filter
        IN  IF "filter" \notin DOMAIN tool.arguments
            THEN sent = None
            ELSE /\ sent # None
                 /\ \A entry \in {tool.arguments["filter"].val[i] :
                                     i \in 1..Len(tool.arguments["filter"].val)} :
                       /\ Len(sent.must) = Len(entry.value.val)
                       /\ \A i \in 1..Len(sent.must) :
                             /\ sent.must[i].key =
                                   DictGet(entry.value.val[i], "key")
                             /\ sent.must[i].match =
                                   DictGet(DictGet(entry.value.val[i], "match"),
                                           "value")

\* C28: handle_rpc answers every body, whatever its shape, with a JSON-RPC
\* response object carrying a result or an error.
C28_AlwaysResponds ==
    \A s \in Slots :
        Answered(s) => rpc[s].resp.kind \in {"result", "error"}

\* ---- QdrantUpsertPointsTool over a gateway whose embed_batch returns any
\* number of vectors: as many as texts, fewer, or more.

BatchReplies(texts) ==
    IF texts = << >> THEN {<< >>}
    ELSE {[i \in 1..n |->
              IF i <= Len(texts) THEN Vector("gateway", texts[i])
              ELSE Vector("gateway", "surplus")] : n \in 0..(Len(texts) + 1)}

\* A caller awaits execute(arguments) on a QdrantUpsertPointsTool.
UpsertCall ==
    /\ tool.pc = "idle"
    /\ \E arguments \in ArgumentsOf("QdrantUpsertPointsTool") :
       \E gateway \in BOOLEAN :
       \E modelFault \in
            ToolModelFaults("QdrantUpsertPointsTool", arguments, gateway) :
       \E embeddings \in BatchReplies(
            IF "points" \in DOMAIN arguments
            THEN TextsToEmbed(arguments["points"].val, gateway) ELSE << >>) :
          tool' = Frame("QdrantUpsertPointsTool", arguments, gateway,
                        QdrantUpsertPointsTool(arguments, gateway, modelFault,
                                               embeddings))
    /\ UNCHANGED << rpc, sse, gw, store >>

UpsertNext ==
    \/ UpsertCall
    \/ ToolStoreReply
    \/ ToolRelease

UpsertSpec == Init /\ [][UpsertNext]_vars

\* C29: whatever number of vectors embed_batch returned, an upsert request
\* that is issued holds at every position a built point (id, vector,
\* payload) of the input point at that index.
C29_NoPlaceholderSent ==
    (tool.name = "QdrantUpsertPointsTool" /\ tool.storeLog # << >>) =>
        LET points_data == tool.arguments["points"].val
            sent == tool.storeLog[1].points
        IN  /\ Len(sent) = Len(points_data)
            /\ \A i \in 1..Len(sent) :
                  /\ sent[i] # None
                  /\ DOMAIN sent[i] = {"id", "vector", "payload"}
                  /\ "id" \in DOMAIN points_data[i] =>
                        sent[i].id = points_data[i]["id"]
                  /\ sent[i].payload =
                        Get(points_data[i], "payload", PyDict(<< >>))


(***************************************************************************)
(* The stores behind the tool classes: what client.create_collection,      *)
(* upsert, search, get_collection and delete do to a collection of the     *)
(* vector store, and what the three Cypher statements of the graph tools   *)
(* do to the graph.  A store sees the request only.                        *)
(***************************************************************************)
MaxScore == 2
MaxNodes == 2
MaxRelationships == 1

\* The scores a store can compute for a stored vector: a Euclid score is a
\* distance, a cosine or a dot product can be negative.
Similarities == (0 - MaxScore)..MaxScore

Scores(distance) ==
    IF distance = "Distance.EUCLID" THEN 0..MaxScore ELSE Similarities

Outcome(reply, st) == [reply |-> reply, store |-> st]

\* The store raises and changes nothing.
Refused(st) == {Outcome(fault, st) : fault \in StoreFaults}

\* The sequences that list every element of S once.
Orderings(S) ==
    {r \in [1..Cardinality(S) -> S] :
        \A i, j \in 1..Cardinality(S) : r[i] = r[j] => i = j}

\* The first n elements of a sequence (LIMIT n, limit=n).
Take(seq, n) == SubSeq(seq, 1, IF n < Len(seq) THEN n ELSE Len(seq))

\* ---- The vector store.

\* Euclid scores are distances, Cosine and Dot scores are similarities: a
\* better hit is nearer under the first and more similar under the others,
\* and score_threshold excludes the hits worse than it.
Better(distance, s1, s2) ==
    IF distance = "Distance.EUCLID" THEN s1 <= s2 ELSE s1 >= s2

Passes(distance, score, score_threshold) ==
    score_threshold.type = "None"
        \/ Better(distance, score, score_threshold.num)

\* client.search: the points that pass the threshold, best first, at most
\* limit of them, for whatever scores the stored vectors have against the
\* query vector.
SearchHits(collection, request) ==
    UNION {
        LET kept == {p \in collection.points :
                        Passes(collection.distance, scoring[p],
                               request.score_threshold)}
        IN  {Take([i \in 1..Len(r) |->
                      [id |-> r[i], score |-> scoring[r[i]],
                       payload |-> << >>]], request.limit) :
                r \in {o \in Orderings(kept) :
                          \A i, j \in 1..Len(o) :
                              i < j => Better(collection.distance,
                                              scoring[o[i]], scoring[o[j]])}}
        : scoring \in [collection.points -> Scores(collection.distance)]}

\* client.get_collection: the CollectionInfo of a collection.
CollectionInfo(collection, distance) ==
    [status |-> "green",
     vectors_count |-> Cardinality(collection.points),
     points_count |-> Cardinality(collection.points),
     size |-> collection.size, distance |-> distance]

\* What the vector store does with one request of the client: the reply
\* and the store afterwards.  A request on a collection that does not
\* exist, a second create_collection of a name and a vector of the wrong
\* size raise.
VectorStore(st, request) ==
    LET named == {c \in st.collections : c.name = request.collection_name}
        collection == CHOOSE c \in named : TRUE
        With(c) == [st EXCEPT !.collections = (@ \ named) \cup {c}]
    IN  IF request.op = "create_collection"
        THEN IF named # {} THEN Refused(st)
             ELSE {Outcome(StoreOk(<< >>),
                      [st EXCEPT !.collections = @ \cup
                          {[name |-> request.collection_name,
                            size |-> request.vectors_config.size,
                            distance |-> request.vectors_config.distance,
                            points |-> {}]}])}
        ELSE IF named = {} THEN Refused(st)
        ELSE CASE request.op = "upsert" ->
                    IF \E i \in 1..Len(request.points) :
                          request.points[i].vector.len # collection.size.num
                    THEN Refused(st)
                    ELSE {Outcome(StoreOk(<< >>),
                             With([collection EXCEPT !.points = @ \cup
                                 {request.points[i].id :
                                     i \in 1..Len(request.points)}]))}
               [] request.op = "search" ->
                    {Outcome(StoreOk(hits), st) :
                        hits \in SearchHits(collection, request)}
               [] request.op = "get_collection" ->
                    {Outcome(StoreOk(<< CollectionInfo(collection, distance) >>),
                             st) :
                        distance \in DistanceObjects(collection.distance)}
               [] request.op = "delete" ->
                    {Outcome(StoreOk(<< >>),
                        With([collection EXCEPT !.points = @ \
                            {PyStr(request.points_selector.val[i]) :
                                i \in 1..Len(request.points_selector.val)}]))}

\* ---- The graph store.

\* The labels, relationship types and embedding properties of the
\* statements the graph tools send, the Cypher texts callers of
\* Neo4jQueryTool write, and the statement a query text is.
StoreLabels == {<< "Person" >>}
StoreTypes == {"KNOWS"}
StoreEmbeddingProperties == {"embedding"}
StoreQueries ==
    {"MATCH (n) RETURN n", "CREATE (n:Person)", "MATCH (n) DETACH DELETE n"}

Statement(query) ==
    IF query = "MATCH (n) RETURN n" THEN [kind |-> "match_all"]
    ELSE IF query = "CREATE (n:Person)"
    THEN [kind |-> "create", labels |-> << "Person" >>]
    ELSE IF query = "MATCH (n) DETACH DELETE n" THEN [kind |-> "delete_all"]
    ELSE IF \E labels \in StoreLabels : query = CreateNodeQuery(labels)
    THEN [kind |-> "create_node",
          labels |-> CHOOSE labels \in StoreLabels :
                        query = CreateNodeQuery(labels)]
    ELSE IF \E rel_type \in StoreTypes : query = CreateRelationshipQuery(rel_type)
    THEN [kind |-> "create_relationship",
          type |-> CHOOSE rel_type \in StoreTypes :
                      query = CreateRelationshipQuery(rel_type)]
    ELSE LET match == CHOOSE m \in StoreLabels \X StoreEmbeddingProperties :
                          query = VectorSearchQuery(m[1][1], m[2])
         IN  [kind |-> "vector_search", label |-> match[1][1],
              embedding_property |-> match[2]]

\* id(n) of the k-th node created (an id is not given out again once its
\* node is deleted), and the nodes with a given id.
NodeId(k) == PyInt(ToString(k))
\* MATCH (a), (b) with the id predicates dropped: every node matches.
NodesWithId_Unfiltered(st, id) == 1..Len(st.nodes)

NodesWithId(st, id) == {k \in 1..Len(st.nodes) : st.nodes[k].id = id}

\* CREATE of a node: the graph with the node added under a new id.
CreateNode(st, labels, properties) ==
    [st EXCEPT !.created = @ + 1,
               !.nodes = Append(@, [id |-> NodeId(st.created + 1),
                                    labels |-> labels,
                                    properties |-> properties])]

HasLabel(node, label) == \E i \in 1..Len(node.labels) : node.labels[i] = label
HasProperty(node, key) ==
    \E i \in 1..Len(node.properties) : node.properties[i].key = key

\* The rows of the similarity statement for one choice of the nodes whose
\* quotient dot / (norm * norm) is defined and of its values: a quotient
\* that is not a number (a zero vector) passes no comparison.
RankedNodes(st, similarity, parameters) ==
    LET kept == {k \in DOMAIN similarity :
                    similarity[k] >= parameters.min_similarity}
    IN  {Take([i \in 1..Len(r) |->
                  [n |-> st.nodes[r[i]].properties,
                   similarity |-> similarity[r[i]]]],
              parameters.limit) :
            r \in {o \in Orderings(kept) :
                      \A i, j \in 1..Len(o) :
                          i < j => similarity[o[i]] >= similarity[o[j]]}}

\* MATCH (n:label) WHERE n.property IS NOT NULL WITH n, dot / (norm * norm)
\* AS similarity WHERE similarity >= $min_similarity RETURN n, similarity
\* ORDER BY similarity DESC LIMIT $limit, for whatever vectors the nodes
\* and the query hold.
SimilarNodes(st, statement, parameters) ==
    LET matched == {k \in 1..Len(st.nodes) :
                       /\ HasLabel(st.nodes[k], statement.label)
                       /\ HasProperty(st.nodes[k], statement.embedding_property)}
    IN  UNION {RankedNodes(st, similarity, parameters) :
                  similarity \in UNION {[defined -> Similarities] :
                                           defined \in SUBSET matched}}

\* What the graph store does with one session.run: the records and the
\* graph afterwards.  A graph that has given out MaxNodes ids, or holds
\* MaxRelationships relationships, takes no more of them (Serve: it
\* raises).
GraphStore(st, request) ==
    LET statement == Statement(request.query)
        parameters == request.parameters
    IN  CASE statement.kind = "match_all" ->
                {Outcome(StoreOk([k \in 1..Len(st.nodes) |->
                                     [n |-> st.nodes[k].properties]]), st)}
          [] statement.kind = "delete_all" ->
                {Outcome(StoreOk(<< >>),
                    [st EXCEPT !.nodes = << >>, !.relationships = << >>])}
          [] statement.kind = "create" ->
                IF st.created >= MaxNodes THEN {}
                ELSE {Outcome(StoreOk(<< >>),
                              CreateNode(st, statement.labels, << >>))}
          [] statement.kind = "create_node" ->
                IF st.created >= MaxNodes THEN {}
                ELSE {Outcome(StoreOk(<< [n |-> parameters.properties,
                                         id |-> NodeId(st.created + 1),
                                         labels |-> statement.labels] >>),
                              CreateNode(st, statement.labels,
                                         parameters.properties))}
          [] statement.kind = "create_relationship" ->
                LET a == NodesWithId(st, parameters.start_id)
                    b == NodesWithId(st, parameters.end_id)
                IN  IF a = {} \/ b = {} THEN {Outcome(StoreOk(<< >>), st)}
                    ELSE IF Len(st.relationships) >= MaxRelationships THEN {}
                    ELSE {Outcome(StoreOk(<<
                              RelationshipData(
                                  st.nodes[CHOOSE k \in a : TRUE].properties,
                                  statement.type,
                                  st.nodes[CHOOSE k \in b : TRUE].properties)
                              >>),
                            [st EXCEPT !.relationships = Append(@,
                                [start |-> parameters.start_id,
                                 end |-> parameters.end_id,
                                 type |-> statement.type,
                                 properties |-> parameters.properties])])}
          [] statement.kind = "vector_search" ->
                {Outcome(StoreOk(rows), st) :
                    rows \in SimilarNodes(st, statement, parameters)}

\* A store serves a request, or is unreachable and raises, changing
\* nothing.
Serve(st, request) ==
    Refused(st) \cup
    (IF request.op = "session.run" THEN GraphStore(st, request)
     ELSE VectorStore(st, request))

\* ---- Calls against the stores, one at a time.

VectorStoreTools ==
    {"QdrantCreateCollectionTool", "QdrantUpsertPointsTool", "QdrantSearchTool",
     "QdrantGetCollectionInfoTool", "QdrantDeletePointsTool"}
GraphStoreTools ==
    {"Neo4jQueryTool", "Neo4jCreateNodeTool", "Neo4jCreateRelationshipTool",
     "Neo4jVectorSearchTool"}

\* The argument mappings of callers that name one collection, one label
\* and one relationship type and pass their own vectors.
StoreArgumentsOf(name) ==
    CASE name = "QdrantCreateCollectionTool" ->
            {Supplied([collection_name |-> PyStr("docs"),
                       vector_size |-> PyNum(EmbeddingDimension),
                       distance |-> d]) :
                d \in {Omitted, PyStr("Euclid")}}
      [] name = "QdrantUpsertPointsTool" ->
            {[collection_name |-> PyStr("docs"),
              points |-> PyList([i \in 1..n |-> Point(i, {"id", "vector"})])] :
                n \in 1..MaxPoints}
      [] name = "QdrantSearchTool" ->
            {Supplied([collection_name |-> PyStr("docs"),
                       query_vector |-> Vector("caller", "q"),
                       limit |-> l, score_threshold |-> s]) :
                l \in {Omitted, PyNum(1)}, s \in {Omitted, PyNum(1)}}
      [] name = "QdrantGetCollectionInfoTool" ->
            {[collection_name |-> PyStr("docs")]}
      [] name = "QdrantDeletePointsTool" ->
            {[collection_name |-> PyStr("docs"),
              point_ids |-> PyList([i \in 1..n |-> "p" \o ToString(i)])] :
                n \in 1..MaxPoints}
      [] name = "Neo4jQueryTool" ->
            {[query |-> PyStr(q)] : q \in StoreQueries}
      [] name = "Neo4jCreateNodeTool" ->
            {Supplied([labels |-> PyList(<< "Person" >>), properties |-> p]) :
                p \in {Omitted,
                       PyDict(<< [key |-> "embedding",
                                  value |-> Vector("caller", "v")] >>)}}
      [] name = "Neo4jCreateRelationshipTool" ->
            {[start_node_id |-> NodeId(a), end_node_id |-> NodeId(b),
              relationship_type |-> PyStr("KNOWS")] :
                a \in 1..MaxNodes, b \in 1..MaxNodes}
      [] name = "Neo4jVectorSearchTool" ->
            {Supplied([label |-> PyStr("Person"),
                       query_vector |-> Vector("caller", "q"),
                       limit |-> l, min_similarity |-> m]) :
                l \in {Omitted, PyNum(1)}, m \in {Omitted, PyNum(1)}}

\* A caller awaits execute(arguments) on one of the given tool classes,
\* built without an embedding model.
StoreCall(names) ==
    /\ tool.pc = "idle"
    /\ \E name \in names :
       \E arguments \in StoreArgumentsOf(name) :
          tool' = Frame(name, arguments, FALSE,
                        execute(name, arguments, FALSE, FALSE, gw.normalize))
    /\ UNCHANGED << rpc, sse, gw, store >>

VectorStoreCall == StoreCall(VectorStoreTools)
GraphStoreCall == StoreCall(GraphStoreTools)

\* What the await a coroutine is suspended on can answer, and the store
\* afterwards: the store executes the request at the client's call and at
\* session.run, and is left as it is by the other awaits.
Completions(st, t) ==
    IF Executes(t.at) THEN Serve(st, t.storeLog[1])
    ELSE {Outcome(reply, st) : reply \in Replies(t)}

\* The await execute is suspended on completes, and execute runs to its
\* next await or its return.
StoreServe ==
    /\ tool.pc = "await_store"
    /\ \E outcome \in Completions(store, tool) :
          /\ tool' = execute_next(tool, outcome.reply)
          /\ store' = outcome.store
    /\ UNCHANGED << rpc, sse, gw >>

VectorStoreNext == VectorStoreCall \/ StoreServe \/ ToolRelease
VectorStoreSpec == Init /\ [][VectorStoreNext]_vars

GraphStoreNext == GraphStoreCall \/ StoreServe \/ ToolRelease
GraphStoreSpec == Init /\ [][GraphStoreNext]_vars


\* ---- C23
\* C23: a DeletePoints call with a list of N ids issues exactly one delete
\* request to the store, carrying exactly those ids, and unless the store
\* raises it reports deleted_count = N, whichever of the ids the collection
\* held.
DeleteRuns ==
    /\ tool.name = "QdrantDeletePointsTool"
    /\ tool.pc \in {"await_store", "done"}
    /\ {"collection_name", "point_ids"} \subseteq DOMAIN tool.arguments

C23_DeletedCountIsRequested ==
    DeleteRuns =>
        /\ tool.storeLog =
              << [op |-> "delete",
                  collection_name |-> tool.arguments["collection_name"],
                  points_selector |-> tool.arguments["point_ids"]] >>
        /\ tool.pc = "done" =>
              \/ tool.result \in StoreFailures
              \/ /\ tool.result.success
                 /\ tool.result.data.deleted_count =
                        Len(tool.arguments["point_ids"].val)

\* Every id of a batch of MaxPoints has been asked to be deleted from a
\* collection that now holds none, and the count reported is MaxPoints.
C23_Witness ==
    /\ DeleteRuns
    /\ tool.pc = "done"
    /\ tool.result.success
    /\ tool.result.data.deleted_count = MaxPoints
    /\ \E c \in store.collections :
          c.name = tool.arguments["collection_name"] /\ c.points = {}


\* ---- C22
\* C22: CreateRelationship creates the relationship only if both endpoints
\* exist, and a missing endpoint is answered with the not-found failure,
\* which nothing else is answered with.  The graph changes during a call
\* only when it runs the call's statement with both endpoints present, and
\* then by exactly the relationship asked for; run with the start or the
\* end node missing the statement yields no record and creates nothing.
\* With an endpoint missing the call returns the not-found failure, or the
\* text of the exception when one of its awaits raised; with both
\* endpoints present it never returns the not-found failure, whether a
\* store fault ended it or not.
NodesNotFound == Failure("Failed to create relationship - nodes not found")

EndpointMissing(st, arguments) ==
    \/ ~ \E k \in 1..Len(st.nodes) :
            st.nodes[k].id = arguments["start_node_id"]
    \/ ~ \E k \in 1..Len(st.nodes) :
            st.nodes[k].id = arguments["end_node_id"]

RelationshipAsked(arguments) ==
    [start |-> arguments["start_node_id"],
     end |-> arguments["end_node_id"],
     type |-> arguments["relationship_type"].val[1],
     properties |-> << >>]

CreateRelationshipSuspended ==
    /\ tool.name = "Neo4jCreateRelationshipTool"
    /\ tool.pc = "await_store"

C22_Step ==
    CreateRelationshipSuspended =>
        /\ store' # store =>
              /\ tool.at = "session.run"
              /\ ~ EndpointMissing(store, tool.arguments)
              /\ store'.nodes = store.nodes
              /\ store'.relationships =
                    Append(store.relationships,
                           RelationshipAsked(tool.arguments))
        /\ (tool.at = "session.run"
                /\ EndpointMissing(store, tool.arguments)) =>
              /\ store' = store
              /\ tool'.at = "result.single" => tool'.cursor = << >>
        /\ (tool.at = "result.single" /\ tool.cursor = << >>) =>
              \/ tool'.pending = NodesNotFound
              \/ tool'.pending \in StoreFailures
        /\ tool'.pc = "done" =>
              /\ store' = store
              /\ EndpointMissing(store, tool.arguments) =>
                    \/ tool'.result = NodesNotFound
                    \/ tool'.result \in StoreFailures
              /\ tool'.result = NodesNotFound =>
                    /\ EndpointMissing(store, tool.arguments)
                    /\ tool.at = "session.__aexit__"
                    /\ tool.pending = NodesNotFound

C22_NotFoundIsDistinct == [][C22_Step]_vars

\* A relationship from the only node of the graph to a node that does not
\* exist was asked for: the call has returned the not-found failure and
\* the graph has no relationship.
C22_Witness ==
    /\ tool.name = "Neo4jCreateRelationshipTool"
    /\ tool.pc = "done"
    /\ tool.result = NodesNotFound
    /\ tool.storeLog # << >>
    /\ Len(store.nodes) = 1
    /\ store.nodes[1].id = NodeId(1)
    /\ tool.arguments["start_node_id"] = NodeId(1)
    /\ tool.arguments["end_node_id"] = NodeId(2)
    /\ store.relationships = << >>


\* ---- C21
\* C21: the results of every successful neo4j_vector_search and
\* qdrant_search call are at most limit (default 10) in number, are in
\* non-increasing order of similarity / score, and none of them is below
\* the caller's minimum (min_similarity, default 0; score_threshold when
\* given).
SearchDone(name) ==
    /\ tool.name = name
    /\ tool.pc = "done"
    /\ tool.result.success

FloorOrderCap(values, floors, limit) ==
    /\ Len(values) <= limit
    /\ \A i \in 1..Len(values) : \A f \in floors : values[i] >= f
    /\ \A i, j \in 1..Len(values) : i < j => values[i] >= values[j]

C21_FloorOrderCap ==
    /\ SearchDone("Neo4jVectorSearchTool") =>
          LET results == tool.result.data.results
          IN  FloorOrderCap([i \in 1..Len(results) |-> results[i].similarity],
                  {GetNumber(tool.arguments, "min_similarity",
                             DefaultMinSimilarity)},
                  GetNumber(tool.arguments, "limit", DefaultLimit))
    /\ SearchDone("QdrantSearchTool") =>
          LET results == tool.result.data.results
          IN  FloorOrderCap([i \in 1..Len(results) |-> results[i].score],
                  IF "score_threshold" \in DOMAIN tool.arguments
                  THEN {tool.arguments["score_threshold"].num} ELSE {},
                  GetNumber(tool.arguments, "limit", DefaultLimit))

====
